---- MODULE Spec2Model ----
(***************************************************************************)
(* A model of rust-steam-tradeoffers: the poller's reconciliation cycle    *)
(* (Poller::do_poll), the classinfo resolver with its memory and disk      *)
(* tiers (SteamTradeOfferAPI::get_asset_classinfos, classinfo_cache        *)
(* helpers) and the manager's polling slot (TradeOfferManager).            *)
(***************************************************************************)
EXTENDS Integers, FiniteSets, Sequences, TLC

(***************************************************************************)
(* Option<T>: a set with at most one element.                              *)
(***************************************************************************)
None == {}
Some(x) == {x}
unwrap_or(o, d) == IF o = {} THEN d ELSE CHOOSE x \in o : TRUE

Restrict(f, S) == [x \in S |-> f[x]]

(***************************************************************************)
(* Program constants (poller.rs:17-20, poller.rs:51).  TLC integers are    *)
(* 32 bits wide, so the "very high date" u32::MAX of a NewOffers poll is   *)
(* represented by the largest integer TLC has; every clock value of the    *)
(* model stays far below it.                                               *)
(***************************************************************************)
OFFERS_SINCE_BUFFER_SECONDS == 1800
OFFERS_SINCE_ALL_TIMESTAMP == 1
STATE_MAP_SIZE_LIMIT == 2500
STATE_MAP_SPLIT_AT == 2000
U32_MAX == 2147483647

(***************************************************************************)
(* Bounds of the model.                                                    *)
(***************************************************************************)
\* the clock value of the poller specifications
StartTime == 4000

\* trade offer ids of the small poller specification; offer 1 and 3 were
\* created by this account, offer 2 was received
OfferIds == {1, 2}
OurOfferIds == {1, 3}

TradeOfferState == {"Active", "Accepted", "Canceled", "CreatedNeedsConfirmation"}

\* the states the small specification gives a received offer
ReceivedOfferState == {"Active", "Accepted"}

PollKinds == {"Default", "NewOffers", "OffersSince", "FullUpdate"}

VARIABLES
    now,        \* the wall clock (seconds)
    poller,     \* the Poller's configuration: cancel_duration, poll_full_update_duration
    poll_data,  \* Poller.poll_data (PollData)
    poll_file,  \* the persisted poll data document of the account, None when absent
    cycle       \* the last do_poll call: its inputs and what it returned

pollVars == <<now, poller, poll_data, poll_file, cycle>>

VARIABLES
    classinfo_cache,  \* SteamTradeOfferAPI.classinfo_cache: class -> ClassInfo
    data_directory,   \* the classinfo files of the data directory: file name -> content
    remote,           \* the records the GetAssetClassInfo endpoint holds: class -> content
    resolved          \* the last get_asset_classinfos call: its input and what it did

resolveVars == <<classinfo_cache, data_directory, remote, resolved>>

VARIABLES
    millis,     \* the system clock (milliseconds)
    fs_dir,     \* the directory entries of one class: file name -> file
    fs_files,   \* the files: file -> content, a sequence of blocks
    savers,     \* the save_classinfo tasks: position, open temporary file, blocks written
    loader      \* the load_classinfo task: position, opened file, contents read so far

saveVars == <<millis, fs_dir, fs_files, savers, loader>>

VARIABLES
    polling,      \* TradeOfferManager.polling: None or Some of [sender, handle]
    channels,     \* the command channels created so far: queue and whether the receiver lives
    supervisors,  \* the polling tasks created so far
    manager       \* whether the manager lives, and what its last do_poll call returned

managerVars == <<polling, channels, supervisors, manager>>

VARIABLES
    trade_offer,  \* the TradeOffer passed to accept_offer, cancel_offer or decline_offer
    api_calls,    \* the calls made to SteamTradeOfferAPI for that offer, in order
    offer_result  \* the last offer method called and what it returned

offerVars == <<trade_offer, api_calls, offer_result>>

VARIABLES
    upstream      \* the trade offers as Steam holds them, and the offers whose classinfos
                  \* can be obtained

upstreamVars == <<upstream>>

vars == <<pollVars, resolveVars, saveVars, managerVars, offerVars, upstreamVars>>

\* a specification of one part leaves the variables of the other parts at rest
PollerAtRest ==
    /\ now = 0 /\ poller = << >> /\ poll_data = << >> /\ poll_file = None
    /\ cycle = [phase |-> "idle"]

ResolverAtRest ==
    /\ classinfo_cache = << >> /\ data_directory = << >>
    /\ remote = << >> /\ resolved = [phase |-> "idle"]

SaveAtRest ==
    /\ millis = 0 /\ fs_dir = << >> /\ fs_files = << >>
    /\ savers = << >> /\ loader = [pc |-> "idle"]

ManagerAtRest ==
    /\ polling = None /\ channels = << >> /\ supervisors = << >>
    /\ manager = [alive |-> FALSE]

OffersAtRest ==
    /\ trade_offer = << >> /\ api_calls = << >> /\ offer_result = [method |-> "none"]

UpstreamAtRest == upstream = [offers |-> << >>, resolvable |-> {}]

(***************************************************************************)
(* PollType (manager/polling/mod.rs).                                      *)
(***************************************************************************)
is_full_update(poll_type) == poll_type.kind = "FullUpdate"
is_active_only(poll_type) == poll_type.kind = "NewOffers"

(***************************************************************************)
(* PollData (manager/polling/poll_data.rs): every mutator sets `changed`.  *)
(***************************************************************************)
NewPollData ==
    [offers_since |-> None, last_poll |-> None, last_poll_full_update |-> None,
     state_map |-> << >>, changed |-> FALSE]

set_last_poll(pd, date) == [pd EXCEPT !.last_poll = Some(date), !.changed = TRUE]

set_last_poll_full_update(pd, date) ==
    [pd EXCEPT !.last_poll_full_update = Some(date), !.changed = TRUE]

set_offers_since(pd, date) == [pd EXCEPT !.offers_since = Some(date), !.changed = TRUE]

clear_offers(pd, ids) ==
    [pd EXCEPT !.state_map = Restrict(pd.state_map, DOMAIN pd.state_map \ ids),
               !.changed = TRUE]

\* mutant: only a poll data without a full poll is stale
last_full_poll_is_stale_Unset(pd, date, duration) ==
    pd.last_poll_full_update = None

last_full_poll_is_stale(pd, date, duration) ==
    \/ pd.last_poll_full_update = None
    \/ date - unwrap_or(pd.last_poll_full_update, 0) >= duration

\* the document serde writes: `changed` is not part of it
PollDocument(pd) ==
    [offers_since |-> pd.offers_since, last_poll |-> pd.last_poll,
     last_poll_full_update |-> pd.last_poll_full_update, state_map |-> pd.state_map]

(***************************************************************************)
(* time.rs: a ServerTime of the model is its unix timestamp in whole       *)
(* seconds; every timestamp of the model is inside chrono's range, where   *)
(* from_timestamp_opt succeeds.                                            *)
(***************************************************************************)
timestamp_to_server_time(timestamp) == timestamp

Max(S) == CHOOSE m \in S : \A x \in S : x <= m

\* RawTradeOffer::is_glitched (response/raw_trade_offer.rs)
is_glitched(offer) == offer.glitched

\* mutant: a stale last full poll turns every poll type but NewOffers into a
\* full update
FetchParams_StaleOverrides(pd, cfg, t, poll_type) ==
    LET offers_since ==
            IF pd.offers_since = None
            THEN OFFERS_SINCE_ALL_TIMESTAMP
            ELSE unwrap_or(pd.offers_since, 0) - OFFERS_SINCE_BUFFER_SECONDS
        full_update ==
            \/ is_full_update(poll_type)
            \/ last_full_poll_is_stale(pd, t, cfg.poll_full_update_duration)
    IN  IF poll_type.kind = "NewOffers"
        THEN [offers_since |-> U32_MAX, active_only |-> TRUE, full_update |-> FALSE]
        ELSE IF full_update
        THEN [offers_since |-> OFFERS_SINCE_ALL_TIMESTAMP, active_only |-> FALSE,
              full_update |-> TRUE]
        ELSE IF poll_type.kind = "OffersSince"
        THEN [offers_since |-> poll_type.date, active_only |-> FALSE,
              full_update |-> FALSE]
        ELSE [offers_since |-> offers_since, active_only |-> TRUE,
              full_update |-> FALSE]

(***************************************************************************)
(* Poller::do_poll, poller.rs:37-60: the parameters of the fetch.          *)
(***************************************************************************)
FetchParams(pd, cfg, t, poll_type) ==
    LET offers_since ==
            IF pd.offers_since = None
            THEN OFFERS_SINCE_ALL_TIMESTAMP
            ELSE unwrap_or(pd.offers_since, 0) - OFFERS_SINCE_BUFFER_SECONDS
        full_update ==
            \/ is_full_update(poll_type)
            \/ last_full_poll_is_stale(pd, t, cfg.poll_full_update_duration)
    IN  IF poll_type.kind = "NewOffers"
        THEN [offers_since |-> U32_MAX, active_only |-> TRUE, full_update |-> FALSE]
        ELSE IF poll_type.kind = "OffersSince"
        THEN [offers_since |-> poll_type.date, active_only |-> FALSE,
              full_update |-> FALSE]
        ELSE IF full_update
        THEN [offers_since |-> OFFERS_SINCE_ALL_TIMESTAMP, active_only |-> FALSE,
              full_update |-> TRUE]
        ELSE [offers_since |-> offers_since, active_only |-> TRUE,
              full_update |-> FALSE]

(***************************************************************************)
(* poller.rs:71-77: the poll timestamps, set after a successful fetch.     *)
(***************************************************************************)
\* mutant: last_poll is set when the fetch was not restricted to active offers
StampPoll_ByFetchFlag(pd, t, poll_type, params) ==
    LET pd1 == IF ~params.active_only THEN set_last_poll(pd, t) ELSE pd
    IN  IF params.full_update THEN set_last_poll_full_update(pd1, t) ELSE pd1

\* mutant: last_poll is set in every cycle, also in an active-only one
StampPoll_Always(pd, t, poll_type, params) ==
    LET pd1 == set_last_poll(pd, t)
    IN  IF params.full_update THEN set_last_poll_full_update(pd1, t) ELSE pd1

StampPoll(pd, t, poll_type, params) ==
    LET pd1 == IF ~is_active_only(poll_type) THEN set_last_poll(pd, t) ELSE pd
    IN  IF params.full_update THEN set_last_poll_full_update(pd1, t) ELSE pd1

(***************************************************************************)
(* poller.rs:80-96: the offers a cancel request is sent for.               *)
(***************************************************************************)
\* mutant: an offer that needs a confirmation is not cancelled
CancelTargets_ActiveOnly(offers, cfg, t) ==
    IF cfg.cancel_duration = None
    THEN {}
    ELSE LET cancel_time == t - unwrap_or(cfg.cancel_duration, 0)
         IN  {id \in DOMAIN offers :
                /\ offers[id].trade_offer_state = "Active"
                /\ offers[id].is_our_offer
                /\ offers[id].time_created < cancel_time}

CancelTargets(offers, cfg, t) ==
    IF cfg.cancel_duration = None
    THEN {}
    ELSE LET cancel_time == t - unwrap_or(cfg.cancel_duration, 0)
         IN  {id \in DOMAIN offers :
                /\ offers[id].trade_offer_state \in {"Active", "CreatedNeedsConfirmation"}
                /\ offers[id].is_our_offer
                /\ offers[id].time_created < cancel_time}

(***************************************************************************)
(* poller.rs:111-116: a successfully cancelled offer is marked Canceled.   *)
(***************************************************************************)
\* mutant: the state of a cancelled offer is left as fetched
MarkCanceled_Skip(offers, cancelled_offers) == offers

MarkCanceled(offers, cancelled_offers) ==
    [id \in DOMAIN offers |->
        IF id \in cancelled_offers
        THEN [offers[id] EXCEPT !.trade_offer_state = "Canceled"]
        ELSE offers[id]]

(***************************************************************************)
(* poller.rs:118-141: the diff against state_map.  The offers of a fetch   *)
(* have distinct ids, so the loop is modelled per id.                      *)
(***************************************************************************)
NotGlitched(offers) == {id \in DOMAIN offers : ~is_glitched(offers[id])}

\* mutant: the guard of the `Some` arm (poller.rs:132) is dropped
StateChanged_NoGuard(state_map, offers) ==
    {id \in NotGlitched(offers) : id \in DOMAIN state_map}

StateChanged(state_map, offers) ==
    {id \in NotGlitched(offers) :
        id \in DOMAIN state_map /\ state_map[id] # offers[id].trade_offer_state}

NewOffers(state_map, offers) ==
    {id \in NotGlitched(offers) : id \notin DOMAIN state_map}

DiffPoll(state_map, offers) == StateChanged(state_map, offers) \cup NewOffers(state_map, offers)

\* mutant: the mark is the latest update among the fetched offers, when there are any
HighWaterMark_Latest(pd, params, offers) ==
    IF NotGlitched(offers) = {}
    THEN unwrap_or(pd.offers_since, timestamp_to_server_time(params.offers_since))
    ELSE Max({offers[id].time_updated : id \in NotGlitched(offers)})

\* poller.rs:108-109, 123-126
HighWaterMark(pd, params, offers) ==
    Max({unwrap_or(pd.offers_since, timestamp_to_server_time(params.offers_since))}
        \cup {offers[id].time_updated : id \in NotGlitched(offers)})

(***************************************************************************)
(* poller.rs:151-167: ids sorted high to low, split at STATE_MAP_SPLIT_AT; *)
(* the tail is removed.                                                    *)
(***************************************************************************)
\* mutant: the sorted ids are split at the size limit instead of the split point
TradeofferidsToRemove_AtLimit(ids) ==
    {id \in ids : Cardinality({other \in ids : other > id}) >= STATE_MAP_SIZE_LIMIT}

TradeofferidsToRemove(ids) ==
    {id \in ids : Cardinality({other \in ids : other > id}) >= STATE_MAP_SPLIT_AT}

\* mutant: the trim runs from the size limit on
TrimStateMap_FromLimit(pd) ==
    IF Cardinality(DOMAIN pd.state_map) >= STATE_MAP_SIZE_LIMIT
    THEN clear_offers(pd, TradeofferidsToRemove(DOMAIN pd.state_map))
    ELSE pd

TrimStateMap(pd) ==
    IF Cardinality(DOMAIN pd.state_map) > STATE_MAP_SIZE_LIMIT
    THEN clear_offers(pd, TradeofferidsToRemove(DOMAIN pd.state_map))
    ELSE pd

(***************************************************************************)
(* api/mod.rs:476-511: the offers of the poll whose classinfos are all in  *)
(* the map; unresolvable is the set of offers for which one is missing.    *)
(***************************************************************************)
map_raw_trade_offers_with_descriptions(poll, unresolvable) == poll \ unresolvable

(***************************************************************************)
(* poller.rs:175-193: the emitted pairs and the new state map.             *)
(***************************************************************************)
EmitPoll(state_map, offers, mapped) ==
    [id \in mapped |->
        [trade_offer_state |-> offers[id].trade_offer_state,
         prev_state |-> IF id \in StateChanged(state_map, offers)
                        THEN Some(state_map[id]) ELSE None]]

\* mutant: the state of every new or changed offer is recorded, mapped or not
InsertStates_Polled(pd, offers, mapped) ==
    LET polled == mapped \cup DiffPoll(pd.state_map, offers)
    IN  IF polled = {}
        THEN pd
        ELSE [pd EXCEPT
                !.changed = TRUE,
                !.state_map = [id \in DOMAIN pd.state_map \cup polled |->
                                  IF id \in polled THEN offers[id].trade_offer_state
                                  ELSE pd.state_map[id]]]

InsertStates(pd, offers, mapped) ==
    IF mapped = {}
    THEN pd
    ELSE [pd EXCEPT
            !.changed = TRUE,
            !.state_map = [id \in DOMAIN pd.state_map \cup mapped |->
                              IF id \in mapped THEN offers[id].trade_offer_state
                              ELSE pd.state_map[id]]]

(***************************************************************************)
(* Poller::do_poll, poller.rs:33-208, as a function of the poller's state  *)
(* and of what the environment answers during the call:                    *)
(*   in.fetch_ok      get_raw_trade_offers succeeds                        *)
(*   in.offers        the fetched offers, by id                            *)
(*   in.descriptions  the fetch carried descriptions                       *)
(*   in.cancel_ok     the offers whose cancel request succeeds             *)
(*   in.unresolvable  the offers with a classinfo that cannot be obtained   *)
(*   in.classinfo_ok  get_asset_classinfos does not fail                   *)
(*   in.save_ok       save_poll_data succeeds                              *)
(***************************************************************************)
\* mutant: the poll timestamps are set before the fetch is awaited
do_poll_StampsBeforeFetch(pd, file, cfg, t, poll_type, in) ==
    LET params == FetchParams(pd, cfg, t, poll_type)
        pd2 == StampPoll(pd, t, poll_type, params)
        cancel_sent == CancelTargets(in.offers, cfg, t)
        cancelled_offers == cancel_sent \cap in.cancel_ok
        offers == MarkCanceled(in.offers, cancelled_offers)
        poll == DiffPoll(pd.state_map, offers)
        pd3 == IF ~is_active_only(poll_type)
               THEN set_offers_since(pd2, HighWaterMark(pd, params, offers))
               ELSE pd2
        pd4 == TrimStateMap(pd3)
        map_failed == ~in.descriptions /\ poll # {} /\ ~in.classinfo_ok
        mapped == map_raw_trade_offers_with_descriptions(poll, in.unresolvable)
        pd5 == InsertStates(pd4, offers, mapped)
        save == pd5.changed
        pd6 == IF save THEN [pd5 EXCEPT !.changed = FALSE] ELSE pd5
        base == [phase |-> "returned", poll_type |-> poll_type, at |-> t,
                 start |-> pd, params |-> params, in |-> in]
    IN  IF ~in.fetch_ok
        THEN [poll_data |-> pd2, poll_file |-> file,
              cycle |-> [base EXCEPT !.in.offers = << >>] @@
                        [result |-> "FetchError", poll |-> << >>,
                         cancel_sent |-> {}, save |-> FALSE]]
        ELSE IF map_failed
        THEN [poll_data |-> pd4, poll_file |-> file,
              cycle |-> base @@
                        [result |-> "ClassInfoError", poll |-> << >>,
                         cancel_sent |-> cancel_sent, save |-> FALSE]]
        ELSE [poll_data |-> pd6,
              poll_file |-> IF save /\ in.save_ok THEN Some(PollDocument(pd6)) ELSE file,
              cycle |-> base @@
                        [result |-> "Ok", poll |-> EmitPoll(pd.state_map, offers, mapped),
                         cancel_sent |-> cancel_sent, save |-> save]]

do_poll(pd, file, cfg, t, poll_type, in) ==
    LET params == FetchParams(pd, cfg, t, poll_type)
        pd2 == StampPoll(pd, t, poll_type, params)
        cancel_sent == CancelTargets(in.offers, cfg, t)
        cancelled_offers == cancel_sent \cap in.cancel_ok
        offers == MarkCanceled(in.offers, cancelled_offers)
        poll == DiffPoll(pd.state_map, offers)
        pd3 == IF ~is_active_only(poll_type)
               THEN set_offers_since(pd2, HighWaterMark(pd, params, offers))
               ELSE pd2
        pd4 == TrimStateMap(pd3)
        map_failed == ~in.descriptions /\ poll # {} /\ ~in.classinfo_ok
        mapped == map_raw_trade_offers_with_descriptions(poll, in.unresolvable)
        pd5 == InsertStates(pd4, offers, mapped)
        save == pd5.changed
        pd6 == IF save THEN [pd5 EXCEPT !.changed = FALSE] ELSE pd5
        base == [phase |-> "returned", poll_type |-> poll_type, at |-> t,
                 start |-> pd, params |-> params, in |-> in]
    IN  IF ~in.fetch_ok
        THEN [poll_data |-> pd, poll_file |-> file,
              cycle |-> [base EXCEPT !.in.offers = << >>] @@
                        [result |-> "FetchError", poll |-> << >>,
                         cancel_sent |-> {}, save |-> FALSE]]
        ELSE IF map_failed
        THEN [poll_data |-> pd4, poll_file |-> file,
              cycle |-> base @@
                        [result |-> "ClassInfoError", poll |-> << >>,
                         cancel_sent |-> cancel_sent, save |-> FALSE]]
        ELSE [poll_data |-> pd6,
              poll_file |-> IF save /\ in.save_ok THEN Some(PollDocument(pd6)) ELSE file,
              cycle |-> base @@
                        [result |-> "Ok", poll |-> EmitPoll(pd.state_map, offers, mapped),
                         cancel_sent |-> cancel_sent, save |-> save]]

(***************************************************************************)
(* The small poller specification: one Poller, its poll data loaded from   *)
(* the account's document (or new), cycles of every poll type over fetches *)
(* of at most two offers.                                                  *)
(***************************************************************************)
OldTime == StartTime - 3000
CancelSeconds == 2000
FullUpdateSeconds == 1000

IdleCycle == [phase |-> "idle"]

PollTypes ==
    {[kind |-> k, date |-> 0] : k \in {"Default", "NewOffers", "FullUpdate"}}
    \cup {[kind |-> "OffersSince", date |-> OldTime]}

\* what a fetch can return for one offer id at time t: an offer created (and
\* last updated) long ago or just now; only an offer of this account can
\* need a confirmation
OfferShapes(id, t) ==
    {[trade_offer_state |-> s, is_our_offer |-> id \in OurOfferIds,
      time_created |-> c, time_updated |-> c, glitched |-> FALSE] :
        s \in IF id \in OurOfferIds THEN TradeOfferState ELSE ReceivedOfferState,
        c \in {OldTime, t}}
    \cup
    {[trade_offer_state |-> "Active", is_our_offer |-> id \in OurOfferIds,
      time_created |-> c, time_updated |-> c, glitched |-> TRUE] : c \in {OldTime}}

Fetches(ids, t) ==
    UNION {[S -> UNION {OfferShapes(id, t) : id \in S}] : S \in SUBSET ids}

WellFormedFetch(offers, t) == \A id \in DOMAIN offers : offers[id] \in OfferShapes(id, t)

StateMaps(ids) ==
    {sm \in UNION {[S -> TradeOfferState] : S \in SUBSET ids} :
        \A id \in DOMAIN sm : id \notin OurOfferIds => sm[id] \in ReceivedOfferState}

PollInit ==
    /\ ResolverAtRest /\ SaveAtRest /\ ManagerAtRest /\ OffersAtRest /\ UpstreamAtRest
    /\ now = StartTime
    /\ poller \in [cancel_duration : {None, Some(CancelSeconds)},
                   poll_full_update_duration : {FullUpdateSeconds}]
    /\ \E sm \in StateMaps(OfferIds), last \in {None, Some(OldTime)} :
          poll_data = [offers_since |-> last, last_poll |-> last,
                       last_poll_full_update |-> last, state_map |-> sm,
                       changed |-> FALSE]
    /\ poll_file = IF poll_data = NewPollData THEN None ELSE Some(PollDocument(poll_data))
    /\ cycle = IdleCycle

NoAnswers ==
    [fetch_ok |-> FALSE, offers |-> << >>, descriptions |-> FALSE, cancel_ok |-> {},
     unresolvable |-> {}, classinfo_ok |-> TRUE, save_ok |-> TRUE]

RunCycle(poll_type, in) ==
    \E out \in {do_poll(poll_data, poll_file, poller, now, poll_type, in)} :
        /\ poll_data' = out.poll_data
        /\ poll_file' = out.poll_file
        /\ cycle' = out.cycle
        /\ UNCHANGED <<now, poller, resolveVars, saveVars, managerVars, offerVars, upstreamVars>>

\* a call of Poller::do_poll whose fetch fails
DoPollFetchFails ==
    /\ cycle.phase = "idle"
    /\ \E poll_type \in PollTypes : RunCycle(poll_type, NoAnswers)

\* a call of Poller::do_poll whose fetch succeeds but whose classinfo request
\* (map_raw_trade_offers) fails
DoPollClassInfoFails ==
    /\ cycle.phase = "idle"
    /\ \E poll_type \in PollTypes, offers \in Fetches(OfferIds, now) :
        /\ WellFormedFetch(offers, now)
        /\ \E cancel_ok \in SUBSET CancelTargets(offers, poller, now) :
            /\ DiffPoll(poll_data.state_map, MarkCanceled(offers, cancel_ok)) # {}
            /\ RunCycle(poll_type,
                        [NoAnswers EXCEPT !.fetch_ok = TRUE, !.offers = offers,
                                          !.cancel_ok = cancel_ok,
                                          !.classinfo_ok = FALSE])

\* a call of Poller::do_poll that runs to its end
DoPoll ==
    /\ cycle.phase = "idle"
    /\ \E poll_type \in PollTypes, offers \in Fetches(OfferIds, now),
          descriptions \in BOOLEAN, save_ok \in {TRUE} :
        /\ WellFormedFetch(offers, now)
        /\ descriptions => is_active_only(poll_type)
        /\ \E cancel_ok \in SUBSET CancelTargets(offers, poller, now) :
           \E unresolvable \in
                SUBSET DiffPoll(poll_data.state_map, MarkCanceled(offers, cancel_ok)) :
             /\ RunCycle(poll_type,
                         [fetch_ok |-> TRUE, offers |-> offers,
                          descriptions |-> descriptions, cancel_ok |-> cancel_ok,
                          unresolvable |-> unresolvable, classinfo_ok |-> TRUE,
                          save_ok |-> save_ok])

\* the supervisor takes the result of the cycle
PublishResult ==
    /\ cycle.phase = "returned"
    /\ cycle' = IdleCycle
    /\ UNCHANGED <<now, poller, poll_data, poll_file, resolveVars, saveVars, managerVars, offerVars, upstreamVars>>

PollNext ==
    \/ DoPoll
    \/ DoPollFetchFails
    \/ DoPollClassInfoFails
    \/ PublishResult

Spec ==
    /\ PollInit
    /\ [][PollNext]_vars

(***************************************************************************)
(* What the claims read off a returned cycle.                              *)
(***************************************************************************)
Returned == cycle.phase = "returned"
Fetched == cycle.in.offers
StartMap == cycle.start.state_map
Emitted == DOMAIN cycle.poll

\* the offers of the fetch that this cycle successfully cancelled
CancelledInCycle == cycle.cancel_sent \cap cycle.in.cancel_ok

\* the state of a fetched offer as it enters the diff
StateInDiff(id) ==
    IF id \in CancelledInCycle THEN "Canceled" ELSE Fetched[id].trade_offer_state

StoredState(id) == IF id \in DOMAIN StartMap THEN Some(StartMap[id]) ELSE None

\* every offer the fetch returned has its classinfos
AllResolve == cycle.result = "Ok" /\ cycle.in.unresolvable = {}

(***************************************************************************)
(* C1 (as stated): in a cycle in which every classinfo resolves, the       *)
(* emitted batch is exactly the fetched non-glitched offers that are       *)
(* absent from stateMap or whose FETCHED state differs from stateMap[id],  *)
(* each paired with the stored state, and stateMap records the emitted     *)
(* state.  Refuted by a cycle that cancelled an offer: the diff sees it as *)
(* Canceled, not with the state the fetch returned.                        *)
(***************************************************************************)
C1_Original ==
    (Returned /\ AllResolve) =>
        /\ Emitted = {id \in DOMAIN Fetched :
                        /\ ~Fetched[id].glitched
                        /\ StoredState(id) # Some(Fetched[id].trade_offer_state)}
        /\ \A id \in Emitted :
            /\ cycle.poll[id].prev_state = StoredState(id)
            /\ id \in DOMAIN poll_data.state_map
            /\ poll_data.state_map[id] = cycle.poll[id].trade_offer_state

(***************************************************************************)
(* C1 (amended): the same with the state of each offer taken as it enters  *)
(* the diff: Canceled for an offer cancelled in this cycle, else the       *)
(* fetched state.                                                          *)
(***************************************************************************)
C1_DiffCorrect ==
    (Returned /\ AllResolve) =>
        /\ Emitted = {id \in DOMAIN Fetched :
                        /\ ~Fetched[id].glitched
                        /\ StoredState(id) # Some(StateInDiff(id))}
        /\ \A id \in Emitted :
            /\ cycle.poll[id].trade_offer_state = StateInDiff(id)
            /\ cycle.poll[id].prev_state = StoredState(id)
            /\ id \in DOMAIN poll_data.state_map
            /\ poll_data.state_map[id] = cycle.poll[id].trade_offer_state

\* the example of the claim: stateMap {1: Active}, fetch [1 Accepted, 2 Active]
C1_Witness ==
    /\ Returned /\ AllResolve
    /\ StartMap = (1 :> "Active")
    /\ DOMAIN Fetched = {1, 2}
    /\ Fetched[1].trade_offer_state = "Accepted" /\ ~Fetched[1].glitched
    /\ Fetched[2].trade_offer_state = "Active" /\ ~Fetched[2].glitched
    /\ cycle.poll = (1 :> [trade_offer_state |-> "Accepted", prev_state |-> Some("Active")])
                    @@ (2 :> [trade_offer_state |-> "Active", prev_state |-> None])
    /\ poll_data.state_map = (1 :> "Accepted") @@ (2 :> "Active")

\* the fetch succeeded and returned only offers that stateMap already holds
\* with the state the fetch returned
NoOpFetch ==
    /\ Returned /\ cycle.in.fetch_ok
    /\ \A id \in DOMAIN Fetched : StoredState(id) = Some(Fetched[id].trade_offer_state)

Expired(id) ==
    /\ poller.cancel_duration # None
    /\ Fetched[id].trade_offer_state \in {"Active", "CreatedNeedsConfirmation"}
    /\ Fetched[id].is_our_offer
    /\ \E expiry \in poller.cancel_duration : Fetched[id].time_created < cycle.at - expiry

(***************************************************************************)
(* C3 (as stated): an expired active offer of this account is sent a       *)
(* cancel request in the cycle and, when the request succeeds, is emitted  *)
(* and recorded in stateMap with state Canceled.  Refuted: a glitched      *)
(* offer is cancelled but skipped by the diff, an offer whose classinfo is *)
(* missing is not emitted, and neither is one stateMap already holds as    *)
(* Canceled.                                                               *)
(***************************************************************************)
C3_Original ==
    (Returned /\ cycle.in.fetch_ok) =>
        \A id \in DOMAIN Fetched :
            Expired(id) =>
                /\ id \in cycle.cancel_sent
                /\ id \in cycle.in.cancel_ok =>
                    /\ id \in Emitted
                    /\ cycle.poll[id].trade_offer_state = "Canceled"
                    /\ id \in DOMAIN poll_data.state_map
                    /\ poll_data.state_map[id] = "Canceled"

(***************************************************************************)
(* C3 (amended): an expired active offer of this account is sent a cancel  *)
(* request in the cycle and, when the request succeeds, enters the diff as *)
(* Canceled: in a cycle that succeeds it is emitted exactly when it is not *)
(* glitched, stateMap did not already hold Canceled for it and its         *)
(* classinfo resolves, and it is then emitted with state Canceled, paired  *)
(* with the stored state, and recorded in stateMap as Canceled.            *)
(***************************************************************************)
C3_AutoCancel ==
    (Returned /\ cycle.in.fetch_ok) =>
        \A id \in DOMAIN Fetched :
            Expired(id) =>
                /\ id \in cycle.cancel_sent
                /\ (id \in cycle.in.cancel_ok /\ cycle.result = "Ok") =>
                    /\ id \in Emitted <=> /\ ~Fetched[id].glitched
                                          /\ StoredState(id) # Some("Canceled")
                                          /\ id \notin cycle.in.unresolvable
                    /\ id \in Emitted =>
                        /\ cycle.poll[id].trade_offer_state = "Canceled"
                        /\ cycle.poll[id].prev_state = StoredState(id)
                        /\ id \in DOMAIN poll_data.state_map
                        /\ poll_data.state_map[id] = "Canceled"

\* offer 1, stored and fetched as Active, expired: cancelled and emitted Canceled
C3_Witness ==
    /\ Returned /\ cycle.result = "Ok"
    /\ 1 \in DOMAIN Fetched /\ Expired(1)
    /\ Fetched[1].trade_offer_state = "Active"
    /\ StoredState(1) = Some("Active")
    /\ 1 \in CancelledInCycle
    /\ 1 \in Emitted
    /\ cycle.poll[1] = [trade_offer_state |-> "Canceled", prev_state |-> Some("Active")]
    /\ poll_data.state_map[1] = "Canceled"

\* the three timestamps of the poll data
Timestamps(pd) == <<pd.last_poll, pd.last_poll_full_update, pd.offers_since>>

(***************************************************************************)
(* C21: a NewOffers cycle is never a full update and leaves last_poll,     *)
(* last_poll_full_update and offers_since of the poll data as they were,   *)
(* whatever is fetched, however stale the last full poll is and however    *)
(* the cycle ends; of the poll data document it can change only state_map. *)
(***************************************************************************)
C21_NewOffersFrame ==
    (Returned /\ cycle.poll_type.kind = "NewOffers") =>
        /\ ~cycle.params.full_update
        /\ Timestamps(poll_data) = Timestamps(cycle.start)
        /\ [PollDocument(poll_data) EXCEPT !.state_map = StartMap]
              = PollDocument(cycle.start)

\* a NewOffers cycle with a stale last full poll that fetched and emitted a
\* new offer updated just now: stateMap grew, the timestamps stayed
C21_Witness ==
    /\ Returned /\ cycle.result = "Ok"
    /\ cycle.poll_type.kind = "NewOffers"
    /\ cycle.start.last_poll_full_update = Some(OldTime)
    /\ 2 \in Emitted /\ 2 \notin DOMAIN StartMap
    /\ Fetched[2].time_updated = cycle.at
    /\ poll_data.state_map # StartMap
    /\ Timestamps(poll_data) = <<Some(OldTime), Some(OldTime), Some(OldTime)>>

(***************************************************************************)
(* The fetch-parameter specification: a Poller whose loaded poll data      *)
(* holds any combination of a high-water mark and a last full poll, and    *)
(* one call of do_poll of any poll type, in two steps: up to its fetch,    *)
(* and from the answer of the fetch to its return.                         *)
(***************************************************************************)
\* the stored high-water marks and the stored times of the last full poll:
\* none, long ago, recent; a last full poll exactly the duration ago is stale
StoredMarks ==
    {None, Some(OldTime), Some(StartTime - OFFERS_SINCE_BUFFER_SECONDS),
     Some(StartTime - FullUpdateSeconds), Some(StartTime)}
StoredFullPolls ==
    {None, Some(OldTime), Some(StartTime - FullUpdateSeconds),
     Some(StartTime - FullUpdateSeconds + 1), Some(StartTime)}

FetchPollTypes == PollTypes \cup {[kind |-> "OffersSince", date |-> StartTime]}

FetchInit ==
    /\ ResolverAtRest /\ SaveAtRest /\ ManagerAtRest /\ OffersAtRest /\ UpstreamAtRest
    /\ now = StartTime
    /\ poller = [cancel_duration |-> None, poll_full_update_duration |-> FullUpdateSeconds]
    /\ \E since \in StoredMarks, full \in StoredFullPolls :
          poll_data = [offers_since |-> since, last_poll |-> full,
                       last_poll_full_update |-> full, state_map |-> << >>,
                       changed |-> FALSE]
    /\ poll_file = None
    /\ cycle = IdleCycle

\* poller.rs:37-69: do_poll reads the clock, derives the parameters and sends
\* the fetch
DoPollSendsFetch ==
    /\ cycle.phase = "idle"
    /\ \E poll_type \in FetchPollTypes :
          cycle' = [phase |-> "fetching", poll_type |-> poll_type, at |-> now,
                    start |-> poll_data,
                    params |-> FetchParams(poll_data, poller, now, poll_type),
                    since |-> timestamp_to_server_time(
                                  FetchParams(poll_data, poller, now, poll_type).offers_since)]
    /\ UNCHANGED <<now, poller, poll_data, poll_file, resolveVars, saveVars, managerVars, offerVars, upstreamVars>>

\* poller.rs:69: the fetch fails and do_poll returns its error
DoPollFetchError ==
    /\ cycle.phase = "fetching"
    /\ RunCycle(cycle.poll_type, NoAnswers)

\* poller.rs:69-208: the fetch returns at most one offer, a received one, and
\* do_poll runs to its end
DoPollFetchReturns ==
    /\ cycle.phase = "fetching"
    /\ \E offers \in Fetches({2}, now) :
          RunCycle(cycle.poll_type,
                   [NoAnswers EXCEPT !.fetch_ok = TRUE, !.offers = offers])

FetchNext ==
    \/ DoPollSendsFetch
    \/ DoPollFetchError
    \/ DoPollFetchReturns

SpecFetch == FetchInit /\ [][FetchNext]_vars

\* the last full poll of the cycle's poll data was stale or missing
StaleAtFetch ==
    last_full_poll_is_stale(cycle.start, cycle.at, poller.poll_full_update_duration)

FetchIs(since, active_only, full_update) ==
    /\ cycle.since = since
    /\ cycle.params.active_only = active_only
    /\ cycle.params.full_update = full_update

(***************************************************************************)
(* C20: the fetch parameters of do_poll by poll type.  Default with a      *)
(* fresh last full poll: since = the stored high-water mark minus 1800     *)
(* seconds, or 1 when no mark is stored, active only, no full update.      *)
(* Default with a stale or missing last full poll, and FullUpdate: since = *)
(* 1, not active only, full update.  OffersSince(t): since = t, not active *)
(* only, no full update even when the last full poll is stale.  NewOffers: *)
(* since = u32::MAX, no full update.                                       *)
(***************************************************************************)
C20_FetchParameters ==
    cycle.phase = "fetching" =>
        LET kind == cycle.poll_type.kind
            mark == cycle.start.offers_since
        IN  /\ kind = "Default" /\ ~StaleAtFetch =>
                  /\ mark = None => FetchIs(OFFERS_SINCE_ALL_TIMESTAMP, TRUE, FALSE)
                  /\ \A date \in mark :
                        FetchIs(date - OFFERS_SINCE_BUFFER_SECONDS, TRUE, FALSE)
            /\ (kind = "Default" /\ StaleAtFetch) \/ kind = "FullUpdate" =>
                  FetchIs(OFFERS_SINCE_ALL_TIMESTAMP, FALSE, TRUE)
            /\ kind = "OffersSince" => FetchIs(cycle.poll_type.date, FALSE, FALSE)
            /\ kind = "NewOffers" =>
                  cycle.since = U32_MAX /\ ~cycle.params.full_update

\* an OffersSince poll sent while the last full poll was stale: since is the
\* given time and the poll is no full update
C20_Witness ==
    /\ cycle.phase = "fetching"
    /\ cycle.poll_type.kind = "OffersSince"
    /\ StaleAtFetch /\ cycle.start.last_poll_full_update # None
    /\ cycle.since = cycle.poll_type.date
    /\ ~cycle.params.full_update

\* a cycle whose fetch succeeded
FetchSucceeded == Returned /\ cycle.in.fetch_ok

\* the cycle was a full update: FullUpdate, or Default with a stale or
\* missing last full poll
FullUpdateCycle ==
    \/ cycle.poll_type.kind = "FullUpdate"
    \/ cycle.poll_type.kind = "Default" /\ StaleAtFetch

StampedFullPoll ==
    /\ cycle.params.full_update <=> FullUpdateCycle
    /\ poll_data.last_poll_full_update =
          IF FullUpdateCycle THEN Some(cycle.at) ELSE cycle.start.last_poll_full_update

StoresMark == FetchSucceeded /\ cycle.poll_type.kind # "NewOffers"

\* the mark the cycle started from: the stored one or, when none was stored,
\* the effective since timestamp of the fetch
MarkAtStart ==
    IF cycle.start.offers_since = None
    THEN cycle.params.offers_since
    ELSE CHOOSE date \in cycle.start.offers_since : TRUE

MarkStored ==
    StoresMark =>
        poll_data.offers_since =
            Some(Max({MarkAtStart} \cup
                     {Fetched[id].time_updated : id \in {i \in DOMAIN Fetched : ~Fetched[i].glitched}}))

MarkNeverDecreases ==
    [][/\ poll_data.offers_since # None => poll_data'.offers_since # None
       /\ \A old \in poll_data.offers_since, new \in poll_data'.offers_since : new >= old]_vars

(***************************************************************************)
(* C23: in every cycle that stores the high-water mark, offers_since after *)
(* the cycle is the maximum of the mark stored before (or, when none was   *)
(* stored, the effective since timestamp of the cycle) and the             *)
(* time_updated of every fetched offer that is not glitched, whether the   *)
(* offer is new, changed, unchanged or left out for missing classinfo; and *)
(* a stored offers_since never decreases, and is never unset, over any     *)
(* sequence of cycles.                                                     *)
(***************************************************************************)
C23_HighWaterMark ==
    /\ []MarkStored
    /\ MarkNeverDecreases

\* a Default cycle from the mark OldTime: offer 1 was unchanged, offer 2 was
\* left out for missing classinfo, and the mark moved to their time_updated
C23_Witness ==
    /\ StoresMark /\ cycle.result = "Ok"
    /\ cycle.start.offers_since = Some(OldTime)
    /\ DOMAIN Fetched = {1, 2}
    /\ StoredState(1) = Some(Fetched[1].trade_offer_state) /\ 1 \notin CancelledInCycle
    /\ 2 \in cycle.in.unresolvable /\ 2 \notin Emitted
    /\ Fetched[1].time_updated = OldTime /\ Fetched[2].time_updated = cycle.at
    /\ poll_data.offers_since = Some(cycle.at)

\* the offers whose cancel request failed in the cycle
CancelFailed == cycle.cancel_sent \ cycle.in.cancel_ok

(***************************************************************************)
(* C25: a cancel request that fails does not fail the cycle.  The cycle    *)
(* ends in an error only if its classinfo request failed; the offer whose  *)
(* cancel failed enters the diff with the state the fetch returned; every  *)
(* offer is emitted exactly when it is not glitched, its state in the diff *)
(* differs from the stored one and its classinfo resolves; and every       *)
(* cycle, hence also a later one, that fetches the offer still active and  *)
(* expired sends a cancel request for it.                                  *)
(***************************************************************************)
C25_CancelFailureIgnored ==
    FetchSucceeded =>
        /\ cycle.result # "Ok" => ~cycle.in.classinfo_ok
        /\ \A id \in CancelFailed : StateInDiff(id) = Fetched[id].trade_offer_state
        /\ cycle.result = "Ok" =>
              /\ Emitted = {id \in DOMAIN Fetched :
                              /\ ~Fetched[id].glitched
                              /\ StoredState(id) # Some(StateInDiff(id))
                              /\ id \notin cycle.in.unresolvable}
              /\ \A id \in Emitted : cycle.poll[id].trade_offer_state = StateInDiff(id)
        /\ \A id \in DOMAIN Fetched : Expired(id) => id \in cycle.cancel_sent

\* offer 1 was stored as Active by an earlier cycle, is fetched Active and
\* expired again, and its cancel request fails again: the cycle succeeds,
\* offer 1 is unchanged and the new offer 2 is emitted
C25_Witness ==
    /\ FetchSucceeded /\ cycle.result = "Ok"
    /\ StoredState(1) = Some("Active")
    /\ DOMAIN Fetched = {1, 2}
    /\ Expired(1) /\ Fetched[1].trade_offer_state = "Active" /\ ~Fetched[1].glitched
    /\ CancelFailed = {1}
    /\ 2 \notin DOMAIN StartMap
    /\ Emitted = {2}
    /\ poll_data.state_map[1] = "Active"

(***************************************************************************)
(* The auto-cancel specification: one call of do_poll of a Poller with an  *)
(* empty state map, in steps: the fetch returns and the cancel requests    *)
(* are sent (poller.rs:62-96), the requests complete one by one in any     *)
(* order (poller.rs:98), and when join_all has every result the call goes  *)
(* on to the diff and runs to its end (poller.rs:99-208).                  *)
(***************************************************************************)
CancelOfferIds == OfferIds \cup OurOfferIds

\* the ids of a set in the order of the fetched vector, taken as ascending
RECURSIVE InOrder(_)
InOrder(ids) ==
    IF ids = {} THEN << >>
    ELSE LET least == CHOOSE id \in ids : \A other \in ids : id <= other
         IN  <<least>> \o InOrder(ids \ {least})

\* mutant: a request is sent for every fetched offer of this account
CancelRequests_AllOurs(offers, cfg, t) ==
    InOrder({id \in DOMAIN offers : offers[id].is_our_offer})

\* poller.rs:83-96: one cancel_offer future per offer that passes the filter
CancelRequests(offers, cfg, t) == InOrder(CancelTargets(offers, cfg, t))

CancelInit ==
    /\ ResolverAtRest /\ SaveAtRest /\ ManagerAtRest /\ OffersAtRest /\ UpstreamAtRest
    /\ now = StartTime
    /\ poller \in [cancel_duration : {None, Some(CancelSeconds)},
                   poll_full_update_duration : {FullUpdateSeconds}]
    /\ poll_data = NewPollData
    /\ poll_file = None
    /\ cycle = IdleCycle

\* poller.rs:62-96: the fetch returns, the poll timestamps are set and the
\* cancel requests are sent
DoPollSendsCancels ==
    /\ cycle.phase = "idle"
    /\ \E poll_type \in PollTypes, offers \in Fetches(CancelOfferIds, now) :
        /\ WellFormedFetch(offers, now)
        /\ \E params \in {FetchParams(poll_data, poller, now, poll_type)},
              requests \in {CancelRequests(offers, poller, now)} :
            /\ poll_data' = StampPoll(poll_data, now, poll_type, params)
            /\ cycle' = [phase |-> "cancelling", poll_type |-> poll_type, at |-> now,
                         start |-> poll_data, params |-> params, offers |-> offers,
                         requests |-> requests,
                         pending |-> {requests[i] : i \in DOMAIN requests},
                         cancelled_offers |-> {}]
    /\ UNCHANGED <<now, poller, poll_file, resolveVars, saveVars, managerVars, offerVars, upstreamVars>>

\* api cancel_offer: one request completes, with the offer id or an error
CancelCompletes ==
    /\ cycle.phase = "cancelling"
    /\ \E id \in cycle.pending, ok \in BOOLEAN :
          cycle' = [cycle EXCEPT
                       !.pending = @ \ {id},
                       !.cancelled_offers = IF ok THEN @ \cup {id} ELSE @]
    /\ UNCHANGED <<now, poller, poll_data, poll_file, resolveVars, saveVars, managerVars, offerVars, upstreamVars>>

\* poller.rs:98-208: join_all has the result of every request; the diff and
\* the rest of the call follow
DoPollAfterCancels ==
    /\ cycle.phase = "cancelling"
    /\ cycle.pending = {}
    /\ \E out \in {do_poll(cycle.start, poll_file, poller, cycle.at, cycle.poll_type,
                            [NoAnswers EXCEPT !.fetch_ok = TRUE, !.offers = cycle.offers,
                                              !.cancel_ok = cycle.cancelled_offers])} :
        /\ poll_data' = out.poll_data
        /\ poll_file' = out.poll_file
        /\ cycle' = out.cycle @@ [requests |-> cycle.requests, pending |-> cycle.pending]
    /\ UNCHANGED <<now, poller, resolveVars, saveVars, managerVars, offerVars, upstreamVars>>

CancelNext ==
    \/ DoPollSendsCancels
    \/ CancelCompletes
    \/ DoPollAfterCancels

SpecCancel == CancelInit /\ [][CancelNext]_vars

\* the fetched offers and the requests of the call in progress or returned
CancelFetched == IF cycle.phase = "cancelling" THEN cycle.offers ELSE cycle.in.offers
RequestsSent == {cycle.requests[i] : i \in DOMAIN cycle.requests}

\* the offer qualifies for auto-cancel
Qualifies(id) ==
    /\ id \in DOMAIN CancelFetched
    /\ CancelFetched[id].is_our_offer
    /\ CancelFetched[id].trade_offer_state \in {"Active", "CreatedNeedsConfirmation"}
    /\ \E expiry \in poller.cancel_duration : CancelFetched[id].time_created < cycle.at - expiry

(***************************************************************************)
(* C24: a cancel request is sent only for a fetched offer that this        *)
(* account created, that is Active or CreatedNeedsConfirmation and that    *)
(* was created strictly before now minus the configured expiry; none is    *)
(* sent when no expiry is configured, none for a received offer, at most   *)
(* one per offer in a cycle, and the diff starts only when every request   *)
(* of the cycle has completed.                                             *)
(***************************************************************************)
C24_CancelRequests ==
    cycle.phase \in {"cancelling", "returned"} =>
        /\ \A id \in RequestsSent : Qualifies(id)
        /\ poller.cancel_duration = None => cycle.requests = << >>
        /\ \A i, j \in DOMAIN cycle.requests : cycle.requests[i] = cycle.requests[j] => i = j
        /\ cycle.phase = "returned" =>
              /\ cycle.pending = {}
              /\ cycle.cancel_sent = RequestsSent
              /\ CancelledInCycle \subseteq RequestsSent

\* two expired offers of this account and a received one were fetched; two
\* requests were sent, one failed, and the diff ran after both had completed
C24_Witness ==
    /\ cycle.phase = "returned"
    /\ DOMAIN cycle.in.offers = {1, 2, 3}
    /\ cycle.requests = <<1, 3>>
    /\ CancelledInCycle = {3}
    /\ cycle.pending = {}
    /\ cycle.poll[3].trade_offer_state = "Canceled"
    /\ cycle.poll[1].trade_offer_state = "Active"

(***************************************************************************)
(* The trim specification: a Poller whose loaded state map holds about     *)
(* STATE_MAP_SIZE_LIMIT offers (ids 10, 20, ..., all Active), and cycles   *)
(* that fetch the lowest stored offer and an offer newer than all stored   *)
(* ones.                                                                   *)
(***************************************************************************)
\* the loaded state map holds STATE_MAP_SIZE_LIMIT .. STATE_MAP_SIZE_LIMIT + TrimOver offers
TrimOver == 1

StoredIds(n) == {10 * i : i \in 1..n}
LowestStoredId == CHOOSE id \in StoredIds(1) : TRUE
NewestOfferId == 10 * (STATE_MAP_SIZE_LIMIT + TrimOver + 1)

TrimFetches ==
    {offers \in Fetches({LowestStoredId, NewestOfferId}, StartTime) :
        \A id \in DOMAIN offers :
            /\ ~offers[id].glitched
            /\ offers[id].time_created = StartTime
            /\ offers[id].trade_offer_state \in ReceivedOfferState}

TrimPollTypes == {pt \in PollTypes : pt.kind \in {"Default", "NewOffers"}}

TrimInit ==
    /\ ResolverAtRest /\ SaveAtRest /\ ManagerAtRest /\ OffersAtRest /\ UpstreamAtRest
    /\ now = StartTime
    /\ poller = [cancel_duration |-> None, poll_full_update_duration |-> FullUpdateSeconds]
    /\ \E over \in 0..TrimOver :
          poll_data = [offers_since |-> Some(OldTime), last_poll |-> Some(OldTime),
                       last_poll_full_update |-> Some(OldTime),
                       state_map |-> [id \in StoredIds(STATE_MAP_SIZE_LIMIT + over) |-> "Active"],
                       changed |-> FALSE]
    /\ poll_file = Some(PollDocument(poll_data))
    /\ cycle = IdleCycle

\* a call of Poller::do_poll on the large state map
DoPollTrim ==
    /\ cycle.phase = "idle"
    /\ \E poll_type \in TrimPollTypes, offers \in TrimFetches, classinfo_ok \in BOOLEAN :
       \E unresolvable \in SUBSET DiffPoll(poll_data.state_map, offers) :
          /\ ~classinfo_ok => unresolvable = {} /\ DiffPoll(poll_data.state_map, offers) # {}
          /\ RunCycle(poll_type,
                      [fetch_ok |-> TRUE, offers |-> offers, descriptions |-> FALSE,
                       cancel_ok |-> {}, unresolvable |-> unresolvable,
                       classinfo_ok |-> classinfo_ok, save_ok |-> TRUE])

\* one cycle from each loaded state map
TrimNext ==
    \/ DoPollTrim
    \/ cycle.phase = "idle" /\ \E poll_type \in TrimPollTypes : RunCycle(poll_type, NoAnswers)

SpecTrim ==
    /\ TrimInit
    /\ [][TrimNext]_vars

\* the n highest ids of a set of ids
HighestIds(ids, n) == {id \in ids : Cardinality({other \in ids : other > id}) < n}

\* the cycle started with more than STATE_MAP_SIZE_LIMIT entries and its fetch succeeded
TrimmingCycle ==
    /\ Returned /\ cycle.in.fetch_ok
    /\ Cardinality(DOMAIN StartMap) > STATE_MAP_SIZE_LIMIT

(***************************************************************************)
(* C4 (as stated): a cycle that starts with more than 2500 entries ends    *)
(* with at most 2000, the entries with the highest ids.  Refuted: the      *)
(* offers the cycle emits are inserted after the trim, so a new offer      *)
(* makes 2001 entries and an emitted offer of the removed tail is back in  *)
(* the map.                                                                *)
(***************************************************************************)
C4_Original ==
    TrimmingCycle =>
        /\ Cardinality(DOMAIN poll_data.state_map) <= STATE_MAP_SPLIT_AT
        /\ DOMAIN poll_data.state_map \subseteq
              HighestIds(DOMAIN StartMap \cup DOMAIN Fetched, STATE_MAP_SPLIT_AT)

(***************************************************************************)
(* C4 (amended): a cycle that starts with more than 2500 entries and whose *)
(* fetch succeeds ends with the 2000 highest-id entries of the starting    *)
(* map, unchanged, plus the offers it emitted: at most 2000 entries plus   *)
(* the emitted ones.                                                       *)
(***************************************************************************)
C4_Trimmed ==
    TrimmingCycle =>
        LET kept == HighestIds(DOMAIN StartMap, STATE_MAP_SPLIT_AT)
        IN  /\ DOMAIN poll_data.state_map = kept \cup Emitted
            /\ Cardinality(kept) = STATE_MAP_SPLIT_AT
            /\ Cardinality(DOMAIN poll_data.state_map)
                  <= STATE_MAP_SPLIT_AT + Cardinality(Emitted)
            /\ \A id \in kept \ Emitted : poll_data.state_map[id] = StartMap[id]
            /\ \A id \in Emitted :
                  poll_data.state_map[id] = cycle.poll[id].trade_offer_state

\* 2501 stored offers; the lowest one changed and a new one arrived: both are
\* in the map after the trim, next to the 2000 highest stored ids
C4_Witness ==
    /\ TrimmingCycle
    /\ Cardinality(DOMAIN StartMap) = STATE_MAP_SIZE_LIMIT + 1
    /\ Emitted = {LowestStoredId, NewestOfferId}
    /\ LowestStoredId \in DOMAIN poll_data.state_map
    /\ 10 * (STATE_MAP_SIZE_LIMIT + 1 - STATE_MAP_SPLIT_AT) \notin DOMAIN poll_data.state_map
    /\ 10 * (STATE_MAP_SIZE_LIMIT + 2 - STATE_MAP_SPLIT_AT) \in DOMAIN poll_data.state_map
    /\ Cardinality(DOMAIN poll_data.state_map) = STATE_MAP_SPLIT_AT + 2

\* the entries the trim step of the cycle keeps
KeptByTrim ==
    IF Cardinality(DOMAIN StartMap) > STATE_MAP_SIZE_LIMIT
    THEN HighestIds(DOMAIN StartMap, STATE_MAP_SPLIT_AT)
    ELSE DOMAIN StartMap

(***************************************************************************)
(* C29: the trim step of a cycle removes entries only when the cycle       *)
(* started with more than STATE_MAP_SIZE_LIMIT of them (with exactly that  *)
(* many, none); it removes exactly the ids that are not among the          *)
(* STATE_MAP_SPLIT_AT highest and leaves every other entry as it was; and  *)
(* every emitted offer is in stateMap, with its emitted state, when the    *)
(* cycle ends, also one whose id was in the removed tail.                  *)
(***************************************************************************)
C29_TrimStep ==
    FetchSucceeded =>
        /\ DOMAIN poll_data.state_map = KeptByTrim \cup Emitted
        /\ \A id \in KeptByTrim \ Emitted : poll_data.state_map[id] = StartMap[id]
        /\ \A id \in Emitted : poll_data.state_map[id] = cycle.poll[id].trade_offer_state
        /\ Cardinality(DOMAIN StartMap) <= STATE_MAP_SIZE_LIMIT =>
               DOMAIN StartMap \subseteq DOMAIN poll_data.state_map
        /\ Cardinality(DOMAIN StartMap) > STATE_MAP_SIZE_LIMIT =>
               DOMAIN StartMap \ DOMAIN poll_data.state_map =
                   (DOMAIN StartMap \ HighestIds(DOMAIN StartMap, STATE_MAP_SPLIT_AT))
                       \ Emitted

\* one entry over the limit: the offer with the lowest id changed and was
\* the only one emitted; it is in the map with its new state, next to the
\* STATE_MAP_SPLIT_AT highest ids, and the rest of the tail is gone
C29_Witness ==
    /\ TrimmingCycle
    /\ Emitted = {LowestStoredId}
    /\ LowestStoredId \in DOMAIN poll_data.state_map
    /\ poll_data.state_map[LowestStoredId] = cycle.poll[LowestStoredId].trade_offer_state
    /\ poll_data.state_map[LowestStoredId] # StartMap[LowestStoredId]
    /\ Cardinality(DOMAIN poll_data.state_map) = STATE_MAP_SPLIT_AT + 1

\* the new or changed offers of the cycle that were not emitted
Excluded ==
    {id \in DOMAIN Fetched :
        ~Fetched[id].glitched /\ StoredState(id) # Some(StateInDiff(id))} \ Emitted

\* the stateMap entry of an offer when the cycle has returned
EntryAfter(id) ==
    IF id \in DOMAIN poll_data.state_map THEN Some(poll_data.state_map[id]) ELSE None

\* the trim step of the cycle removed the entry of the offer
TrimmedAway(id) ==
    /\ Cardinality(DOMAIN StartMap) > STATE_MAP_SIZE_LIMIT
    /\ id \in DOMAIN StartMap \ HighestIds(DOMAIN StartMap, STATE_MAP_SPLIT_AT)

(***************************************************************************)
(* C26 (as stated): an offer that is new or changed but whose classinfo    *)
(* cannot be resolved in the cycle is not emitted, and its stateMap entry  *)
(* is after the cycle exactly what it was before (absent, or the old       *)
(* state), so that a later cycle pairs it with the same previous state.    *)
(* Refuted: the trim step of the same cycle removes the entry when         *)
(* stateMap had more than 2500 entries and the id is in the removed tail.  *)
(***************************************************************************)
C26_Original ==
    FetchSucceeded =>
        /\ cycle.in.unresolvable \subseteq Excluded
        /\ \A id \in Excluded : EntryAfter(id) = StoredState(id)

(***************************************************************************)
(* C26 (amended): such an offer is not emitted and the cycle writes no     *)
(* state for it: its stateMap entry is after the cycle what it was before, *)
(* except that it is absent when the trim step of the cycle removed it.    *)
(***************************************************************************)
C26_ExcludedNotRecorded ==
    FetchSucceeded =>
        /\ cycle.in.unresolvable \subseteq Excluded
        /\ \A id \in Excluded :
              EntryAfter(id) = IF TrimmedAway(id) THEN None ELSE StoredState(id)

\* the lowest stored offer changed and its classinfo did not resolve, in a
\* cycle that trimmed its entry away, while the new offer was emitted
C26_Witness ==
    /\ TrimmingCycle /\ cycle.result = "Ok"
    /\ cycle.in.unresolvable = {LowestStoredId}
    /\ StoredState(LowestStoredId) = Some("Active")
    /\ Fetched[LowestStoredId].trade_offer_state = "Accepted"
    /\ LowestStoredId \notin DOMAIN poll_data.state_map
    /\ Emitted = {NewestOfferId}

(***************************************************************************)
(* The classinfo resolver: SteamTradeOfferAPI::get_asset_classinfos        *)
(* (api/mod.rs:304-379) over the memory cache, the classinfo files of the  *)
(* data directory (classinfo_cache/helpers.rs) and the GetAssetClassInfo   *)
(* endpoint.                                                               *)
(***************************************************************************)
\* ClassInfoClass = (AppId, ClassId, Option<InstanceId>)
ClassInfoClasses == {<<440, 1, None>>, <<440, 1, Some(0)>>, <<730, 2, None>>}

AppIds == {class[1] : class \in ClassInfoClasses}

\* file contents are "{a}" and "{b}" (two serialized ClassInfo records), ""
\* (an empty record) and the content left by two writes that ran into each other
TornString == "{a}{"

\* serde_json::from_str::<ClassInfo>: Some(classinfo), or None for an error
from_str(data) ==
    CASE data = "{a}" -> Some("a")
      [] data = "{b}" -> Some("b")
      [] OTHER -> None

\* helpers.rs:32-57: the file name of a class; `timestamp` is the clock value
\* read for a temporary name
get_classinfo_file_path(class, is_temp, timestamp) ==
    LET instanceid == unwrap_or(class[3], 0)
    IN  IF is_temp
        THEN [appid |-> class[1], classid |-> class[2], instanceid |-> instanceid,
              temp |-> Some(timestamp)]
        ELSE [appid |-> class[1], classid |-> class[2], instanceid |-> instanceid,
              temp |-> None]

FinalName(class) == get_classinfo_file_path(class, FALSE, 0)

\* helpers.rs:21-30: Some(classinfo), or None when the file is absent or does not parse
load_classinfo(class, files) ==
    IF FinalName(class) \in DOMAIN files THEN from_str(files[FinalName(class)]) ELSE None

\* helpers.rs:94-120 with the flatten of api/mod.rs:338-343: the classes that loaded
load_classinfos(classes, files) ==
    [class \in {c \in classes : load_classinfo(c, files) # None} |->
        unwrap_or(load_classinfo(class, files), "")]

\* helpers.rs:122-150: every record is written under the final name of its
\* class unless its save fails; records of two classes with one file name are
\* written by two tasks at once, and `race` tells whose content the file is
\* left with (None: neither's)
save_classinfos(records, files, save_fails, race) ==
    LET writers(name) == {c \in DOMAIN records \ save_fails : FinalName(c) = name}
        names == {FinalName(c) : c \in DOMAIN records \ save_fails}
        content(name) ==
            IF Cardinality(writers(name)) = 1 THEN records[CHOOSE c \in writers(name) : TRUE]
            ELSE IF race # None /\ race \subseteq writers(name)
            THEN records[CHOOSE c \in race : TRUE]
            ELSE TornString
    IN  [name \in DOMAIN files \cup names |->
            IF name \in names THEN content(name) ELSE files[name]]

\* mutant: unparseable records are kept
ParseableRecords_Unfiltered(records) ==
    [class \in DOMAIN records |-> unwrap_or(from_str(records[class]), "a")]

\* api/mod.rs:266-279: the records that deserialize into a ClassInfo
ParseableRecords(records) ==
    [class \in {c \in DOMAIN records : from_str(records[c]) # None} |->
        unwrap_or(from_str(records[class]), "")]

\* mutant: the memory cache takes no entry
insert_map_Nothing(cache, classinfos) == cache

\* ClassInfoCache (classinfo_cache/mod.rs): a map that keeps every entry
insert_map(cache, classinfos) == classinfos @@ cache

\* GetAssetClassInfoResponse.result (response types): the records the endpoint
\* holds for the requested classes, keyed by the class asked for
GetAssetClassInfoResponse(rem, classes) == Restrict(rem, classes \cap DOMAIN rem)

\* mutant: a failed save fails the request it belongs to
get_app_asset_classinfos_chunk_SaveChecked(st, classes, rem, in) ==
    LET records == GetAssetClassInfoResponse(rem, classes)
        classinfos == ParseableRecords(records)
    IN  IF DOMAIN records \cap in.save_fails # {}
        THEN [st EXCEPT !.result = "Err", !.requested = st.requested \cup classes]
        ELSE [st EXCEPT !.files = save_classinfos(records, st.files, in.save_fails, in.race),
                        !.cache = insert_map(st.cache, classinfos),
                        !.map = classinfos @@ st.map,
                        !.requested = st.requested \cup classes]

\* api/mod.rs:229-284 for the classes of one app, which are fewer than the
\* chunk size of api/mod.rs:292 and so make one chunk; st is the call so far
get_app_asset_classinfos_chunk(st, classes, rem, in) ==
    LET records == GetAssetClassInfoResponse(rem, classes)
        classinfos == ParseableRecords(records)
    IN  [st EXCEPT !.files = save_classinfos(records, st.files, in.save_fails, in.race),
                   !.cache = insert_map(st.cache, classinfos),
                   !.map = classinfos @@ st.map,
                   !.requested = st.requested \cup classes]

\* mutant: a failed request is skipped and the call goes on
RECURSIVE RemotePass_Continue(_, _, _, _)
RemotePass_Continue(st, order, rem, in) ==
    IF order = << >> THEN st
    ELSE LET classes == {c \in st.needed : c[1] = Head(order)}
         IN  IF classes = {} THEN RemotePass_Continue(st, Tail(order), rem, in)
             ELSE IF Head(order) \in in.down
             THEN RemotePass_Continue([st EXCEPT !.requested = st.requested \cup classes],
                                      Tail(order), rem, in)
             ELSE RemotePass_Continue(get_app_asset_classinfos_chunk(st, classes, rem, in),
                                      Tail(order), rem, in)

\* api/mod.rs:361-376 with api/mod.rs:287-301: the needed classes grouped by
\* app, one request per app in the order the map of apps is iterated; the
\* first request that fails ends the call with its error
RECURSIVE RemotePass(_, _, _, _)
RemotePass(st, order, rem, in) ==
    IF order = << >> THEN st
    ELSE LET classes == {c \in st.needed : c[1] = Head(order)}
         IN  IF classes = {} THEN RemotePass(st, Tail(order), rem, in)
             ELSE IF Head(order) \in in.down
             THEN [st EXCEPT !.result = "Err", !.requested = st.requested \cup classes]
             ELSE RemotePass(get_app_asset_classinfos_chunk(st, classes, rem, in),
                             Tail(order), rem, in)

\* api/mod.rs:304-379.  in.order is the iteration order of the apps, in.down
\* the apps whose request the endpoint fails, in.read_fails the classes whose
\* file read returns an I/O error (an Err that the flatten of api/mod.rs:338-343
\* drops), in.save_fails the classes whose file save fails, in.race the outcome
\* of two saves under one file name
get_asset_classinfos(cache, files, rem, classes, in) ==
    LET hits == classes \cap DOMAIN cache
        loaded == load_classinfos((classes \ hits) \ in.read_fails, files)
        st == [result |-> "Ok",
               cache |-> insert_map(cache, loaded),
               files |-> files,
               map |-> loaded @@ Restrict(cache, hits),
               needed |-> (classes \ hits) \ DOMAIN loaded,
               requested |-> {},
               disk_read |-> classes \ hits]
    IN  IF classes = {}
        THEN [result |-> "Ok", cache |-> cache, files |-> files, map |-> << >>,
              needed |-> {}, requested |-> {}, disk_read |-> {}]
        ELSE RemotePass(st, in.order, rem, in)

\* the classes of a set that share their file name with another class of the set
Contended(classes) == {c \in classes : \E d \in classes : d # c /\ FinalName(d) = FinalName(c)}

Orders(S) == {order \in [1..Cardinality(S) -> S] : \A i, j \in 1..Cardinality(S) : order[i] = order[j] => i = j}

\* a process starts with an empty memory cache; the data directory holds what
\* earlier processes left; the endpoint holds a record or none for each class
ResolveInit ==
    /\ PollerAtRest /\ SaveAtRest /\ ManagerAtRest /\ OffersAtRest /\ UpstreamAtRest
    /\ classinfo_cache = << >>
    /\ \E names \in SUBSET {FinalName(c) : c \in ClassInfoClasses} :
          data_directory \in [names -> {"{b}", ""}]
    /\ \E classes \in SUBSET ClassInfoClasses : remote \in [classes -> {"{a}", ""}]
    /\ resolved = [phase |-> "idle"]

\* one call of get_asset_classinfos, from its first line to its return
Resolve(classes, in) ==
    \E out \in {get_asset_classinfos(classinfo_cache, data_directory, remote, classes, in)} :
        /\ classinfo_cache' = out.cache
        /\ data_directory' = out.files
        /\ resolved' = [phase |-> "returned", classes |-> classes, down |-> in.down,
                        start |-> [cache |-> classinfo_cache, files |-> data_directory],
                        result |-> out.result,
                        map |-> IF out.result = "Ok" THEN out.map ELSE << >>,
                        requested |-> out.requested, disk_read |-> out.disk_read,
                        read_fails |-> in.read_fails, save_fails |-> in.save_fails]
        /\ UNCHANGED <<remote, pollVars, saveVars, managerVars, offerVars, upstreamVars>>

\* a call while the endpoint answers every request
GetAssetClassinfos ==
    \E classes \in SUBSET ClassInfoClasses, order \in Orders(AppIds) :
    \E save_fails \in {{}, classes}, race \in {None} \cup {Some(c) : c \in Contended(classes)} :
        /\ Resolve(classes, [order |-> order, down |-> {}, read_fails |-> {},
                             save_fails |-> save_fails, race |-> race])

\* a call while the endpoint fails the requests of some apps
GetAssetClassinfosEndpointDown ==
    \E classes \in SUBSET ClassInfoClasses, order \in Orders(AppIds),
       down \in SUBSET AppIds :
        /\ down # {}
        /\ Resolve(classes, [order |-> order, down |-> down, read_fails |-> {},
                             save_fails |-> {}, race |-> None])

ResolveNext ==
    \/ GetAssetClassinfos
    \/ GetAssetClassinfosEndpointDown

SpecResolve == ResolveInit /\ [][ResolveNext]_vars

\* a call that the endpoint answers while the reads of some files may return
\* an I/O error and the saves of the fetched records may fail; the requests of
\* two apps touch different keys and files, so that with every request
\* answered one order of the apps stands for all
GetAssetClassinfosDiskFaults ==
    \E classes \in SUBSET ClassInfoClasses :
    \E read_fails \in SUBSET classes, save_fails \in {{}, classes} :
        /\ Resolve(classes, [order |-> CHOOSE order \in Orders(AppIds) : TRUE,
                             down |-> {}, read_fails |-> read_fails,
                             save_fails |-> save_fails, race |-> None])

ResolveFaultsNext == GetAssetClassinfosDiskFaults

SpecResolveFaults == ResolveInit /\ [][ResolveFaultsNext]_vars

\* the tiers a class was resolvable through when the last call started
InMemory(class) == class \in DOMAIN resolved.start.cache
OnDisk(class) ==
    /\ FinalName(class) \in DOMAIN resolved.start.files
    /\ from_str(resolved.start.files[FinalName(class)]) # None
AtRemote(class) == class \in DOMAIN remote /\ from_str(remote[class]) # None
Resolvable(class) == InMemory(class) \/ OnDisk(class) \/ AtRemote(class)

CallReturned == resolved.phase = "returned"
CallSucceeded == CallReturned /\ resolved.result = "Ok"

(***************************************************************************)
(* C5: a successful get_asset_classinfos(K) returns a map whose key set is *)
(* exactly the keys of K that are in the memory cache, have a parseable    *)
(* disk file, or have a parseable remote record: no key outside K, no      *)
(* resolvable key of K missing, unresolvable keys absent.                  *)
(***************************************************************************)
C5_ExactlyResolvable ==
    CallSucceeded =>
        DOMAIN resolved.map = {class \in resolved.classes : Resolvable(class)}

\* a successful call of three classes: one came from memory, one from the
\* endpoint, and the third, resolvable nowhere, is absent from the map
C5_Witness ==
    /\ CallSucceeded
    /\ resolved.classes = ClassInfoClasses
    /\ \E m, r, u \in resolved.classes :
          /\ InMemory(m) /\ m \in DOMAIN resolved.map
          /\ ~InMemory(r) /\ ~OnDisk(r) /\ AtRemote(r) /\ r \in DOMAIN resolved.map
          /\ ~Resolvable(u) /\ u \notin DOMAIN resolved.map

(***************************************************************************)
(* C6 (as stated): the call returns an error if and only if K is not empty *)
(* and no key of K is resolvable.  Refuted in both directions: a failed    *)
(* request fails the call although other keys came from memory or disk,    *)
(* and a call none of whose keys resolves returns an empty map.            *)
(***************************************************************************)
C6_Original ==
    CallReturned =>
        (resolved.result = "Err" <=>
            /\ resolved.classes # {}
            /\ \A class \in resolved.classes : ~Resolvable(class))

(***************************************************************************)
(* C6 (amended): the call returns an error if and only if the endpoint     *)
(* fails a request for the app of some key of K that is neither in the     *)
(* memory cache nor in a parseable disk file; in every other case it       *)
(* returns a map, which is empty when no key resolves.                     *)
(***************************************************************************)
C6_ErrorIffRequestFails ==
    CallReturned =>
        /\ resolved.result = "Err" <=>
              \E class \in resolved.classes :
                  ~InMemory(class) /\ ~OnDisk(class) /\ class[1] \in resolved.down
        /\ resolved.result = "Ok" /\ (\A class \in resolved.classes : ~Resolvable(class))
              => resolved.map = << >>

\* the call failed although one of its keys was in a parseable disk file
C6_Witness ==
    /\ CallReturned
    /\ resolved.result = "Err"
    /\ \E class \in resolved.classes : OnDisk(class)

(***************************************************************************)
(* C7 (as stated): a second get_asset_classinfos(K) right after a          *)
(* successful first one returns the same map, and sends no request and     *)
(* reads no file for a key the first call returned.  Read here with an     *)
(* endpoint that answers the second call.  Refuted: a key of K that shares *)
(* its file name with a key the first call fetched is loaded from that     *)
(* file by the second call.                                                *)
(***************************************************************************)
C7_Original ==
    [][(/\ CallSucceeded
        /\ resolved'.phase = "returned"
        /\ resolved'.classes = resolved.classes
        /\ resolved'.down = {})
       => /\ resolved'.result = "Ok"
          /\ resolved'.map = resolved.map
          /\ resolved'.requested \cap DOMAIN resolved.map = {}
          /\ resolved'.disk_read \cap DOMAIN resolved.map = {}]_vars

\* the keys of the last call that were not in memory and whose file was absent,
\* unparseable or unreadable
DiskMiss(class) ==
    /\ ~InMemory(class)
    /\ class \in resolved.read_fails \/ ~OnDisk(class)

\* the ClassInfo of the record the endpoint holds for a class
RemoteClassInfo(class) == unwrap_or(from_str(remote[class]), "")

(***************************************************************************)
(* C15: no disk failure fails get_asset_classinfos or loses a fetched      *)
(* record.  A call whose requests the endpoint answers succeeds whatever   *)
(* reads and saves fail; a key whose file is unreadable or unparseable is  *)
(* asked of the endpoint like a key with no file; and every parseable      *)
(* record the endpoint returned is in the returned map and in the memory   *)
(* cache, whether or not its save failed.                                  *)
(***************************************************************************)
C15_DiskFailuresRecovered ==
    CallReturned =>
        /\ resolved.down = {} => resolved.result = "Ok"
        /\ resolved.result = "Ok" =>
              /\ \A class \in resolved.classes : DiskMiss(class) => class \in resolved.requested
              /\ \A class \in resolved.requested :
                    AtRemote(class) =>
                        /\ class \in DOMAIN resolved.map
                        /\ resolved.map[class] = RemoteClassInfo(class)
                        /\ class \in DOMAIN classinfo_cache
                        /\ classinfo_cache[class] = RemoteClassInfo(class)

\* a successful call during which the read of a parseable file failed and the
\* save of a fetched record failed: both keys were asked of the endpoint and
\* the record whose save failed was returned
C15_Witness ==
    /\ CallSucceeded
    /\ \E class \in resolved.read_fails :
          ~InMemory(class) /\ OnDisk(class) /\ class \in resolved.requested
    /\ \E class \in resolved.save_fails :
          /\ class \in resolved.requested /\ AtRemote(class)
          /\ class \in DOMAIN resolved.map
          /\ FinalName(class) \notin DOMAIN data_directory

\* the keys of the last call for which the endpoint returned a record that
\* does not deserialize, and those for which it returned one that does
Unparseable(class) ==
    /\ class \in resolved.requested
    /\ class \in DOMAIN remote /\ from_str(remote[class]) = None
Parseable(class) == class \in resolved.requested /\ AtRemote(class)

\* the records of one batch: the requested keys of one app
SameBatch(c, d) == c[1] = d[1]

\* the last call dropped what did not deserialize and kept the rest
DroppedNotCached ==
    CallSucceeded =>
        /\ \A class \in resolved.classes : Unparseable(class) =>
              /\ class \notin DOMAIN resolved.map
              /\ class \notin DOMAIN classinfo_cache
        /\ \A class \in resolved.classes : Parseable(class) =>
              /\ class \in DOMAIN resolved.map
              /\ resolved.map[class] = RemoteClassInfo(class)
              /\ class \in DOMAIN classinfo_cache
              /\ classinfo_cache[class] = RemoteClassInfo(class)

\* the next call, answered by the endpoint, asks again for the keys whose
\* records the last call dropped
AsksAgain ==
    [][(/\ CallSucceeded
        /\ resolved'.phase = "returned"
        /\ resolved'.down = {})
       => \A class \in resolved.classes \cap resolved'.classes :
              Unparseable(class) => class \in resolved'.requested]_vars

(***************************************************************************)
(* C16 (as stated): a remote batch some of whose records do not            *)
(* deserialize still succeeds; the keys of those records are absent from   *)
(* the result and from the memory cache, so that a later resolve asks for  *)
(* them again, and every parseable record of the batch is returned and     *)
(* cached.  Refuted in its consequence: a dropped key that shares its file *)
(* name with a parseable key of the batch is found on disk by the next     *)
(* call and is not asked for again.                                        *)
(***************************************************************************)
C16_Original ==
    /\ []DroppedNotCached
    /\ AsksAgain

\* every file of a directory deserializes into a ClassInfo
AllFilesValid(files) == \A name \in DOMAIN files : from_str(files[name]) # None

(***************************************************************************)
(* C17 (as stated): every file under a final classinfo name deserializes   *)
(* into a ClassInfo after any sequence of resolve calls, and a record the  *)
(* endpoint returned empty or unparseable is never stored under a final    *)
(* name.  Stated per call: a call that started with a valid directory      *)
(* leaves a valid directory, and the file of a key whose record did not    *)
(* deserialize does not come to hold that record.  Refuted: the batch is   *)
(* saved as returned, before the records are parsed.                       *)
(***************************************************************************)
C17_Original ==
    CallReturned =>
        /\ AllFilesValid(resolved.start.files) => AllFilesValid(data_directory)
        /\ \A class \in resolved.classes :
              Unparseable(class) /\ FinalName(class) \notin DOMAIN resolved.start.files
                  => \/ FinalName(class) \notin DOMAIN data_directory
                     \/ data_directory[FinalName(class)] # remote[class]

(***************************************************************************)
(* The steps of save_classinfo and load_classinfo (helpers.rs:21-92) on    *)
(* the files of one class: two tasks that each save a record of the class  *)
(* (a poll cycle and a direct fetch) and a task that loads it.  A file     *)
(* name leads to a file; a file holds a sequence of blocks; an open handle *)
(* keeps its file whatever happens to the name.                            *)
(***************************************************************************)
\* the blocks of a record, and the last value of the millisecond clock
ContentBlocks == 2
MaxMillis == 1

SaveTasks == {"poll", "direct"}
SavedClass == <<440, 1, None>>

\* the complete content written by `owner`; "old" wrote the file found at start
Content(owner) == [i \in 1..ContentBlocks |-> <<owner, i>>]
Complete(content) == \E owner \in SaveTasks \cup {"old"} : content = Content(owner)

FinalPath == get_classinfo_file_path(SavedClass, FALSE, 0)

IdleSaver == [pc |-> "idle", temp |-> FinalPath, file |-> 0, offset |-> 0]

SaveInit ==
    /\ PollerAtRest /\ ResolverAtRest /\ ManagerAtRest /\ OffersAtRest /\ UpstreamAtRest
    /\ millis = 0
    /\ \/ fs_dir = << >> /\ fs_files = << >>
       \/ fs_dir = (FinalPath :> 1) /\ fs_files = <<Content("old")>>
    /\ savers = [task \in SaveTasks |-> IdleSaver]
    /\ loader = [pc |-> "idle", file |-> 0, seen |-> {}]

SaveStep(task, next) ==
    /\ savers' = [savers EXCEPT ![task] = next]
    /\ UNCHANGED <<millis, loader, pollVars, resolveVars, managerVars, offerVars, upstreamVars>>

\* mutant: the record is written under the final name
SaveStart_InPlace(task) ==
    /\ savers[task].pc = "idle"
    /\ SaveStep(task, [savers[task] EXCEPT !.pc = "create", !.temp = FinalPath])
    /\ UNCHANGED <<fs_dir, fs_files>>

\* helpers.rs:65-69: the temporary name is made from the clock
SaveStart(task) ==
    /\ savers[task].pc = "idle"
    /\ SaveStep(task, [savers[task] EXCEPT
                          !.pc = "create",
                          !.temp = get_classinfo_file_path(SavedClass, TRUE, millis)])
    /\ UNCHANGED <<fs_dir, fs_files>>

\* helpers.rs:70: File::create opens the file of that name, emptied, or makes it
Create(task) ==
    /\ savers[task].pc = "create"
    /\ IF savers[task].temp \in DOMAIN fs_dir
       THEN /\ fs_files' = [fs_files EXCEPT ![fs_dir[savers[task].temp]] = << >>]
            /\ UNCHANGED fs_dir
            /\ SaveStep(task, [savers[task] EXCEPT !.pc = "write",
                                                   !.file = fs_dir[savers[task].temp]])
       ELSE /\ fs_dir' = [name \in DOMAIN fs_dir \cup {savers[task].temp} |->
                             IF name = savers[task].temp THEN Len(fs_files) + 1
                             ELSE fs_dir[name]]
            /\ fs_files' = Append(fs_files, << >>)
            /\ SaveStep(task, [savers[task] EXCEPT !.pc = "write",
                                                   !.file = Len(fs_files) + 1])

\* the content of a file after `block` was written at position `at`
WriteAt(content, at, block) ==
    [i \in 1..Max({Len(content), at}) |->
        IF i = at THEN block ELSE IF i <= Len(content) THEN content[i] ELSE <<"hole", i>>]

\* helpers.rs:72: write_all writes the record block by block at the handle's
\* position; after the last block the task goes on to flush
Write(task) ==
    /\ savers[task].pc = "write"
    /\ LET at == savers[task].offset + 1
       IN  /\ fs_files' = [fs_files EXCEPT ![savers[task].file] =
                              WriteAt(@, at, Content(task)[at])]
           /\ SaveStep(task, [savers[task] EXCEPT
                                 !.offset = at,
                                 !.pc = IF at = ContentBlocks THEN "flush" ELSE "write"])
    /\ UNCHANGED fs_dir

\* helpers.rs:85-90: a write fails; the temporary name is removed next
WriteFails(task) ==
    /\ savers[task].pc = "write"
    /\ SaveStep(task, [savers[task] EXCEPT !.pc = "remove"])
    /\ UNCHANGED <<fs_dir, fs_files>>

\* helpers.rs:87: remove_file(&temp_filepath), then the error is returned
RemoveTemp(task) ==
    /\ savers[task].pc = "remove"
    /\ fs_dir' = Restrict(fs_dir, DOMAIN fs_dir \ {savers[task].temp})
    /\ SaveStep(task, [savers[task] EXCEPT !.pc = "failed"])
    /\ UNCHANGED fs_files

\* helpers.rs:80
Flush(task) ==
    /\ savers[task].pc = "flush"
    /\ SaveStep(task, [savers[task] EXCEPT !.pc = "rename"])
    /\ UNCHANGED <<fs_dir, fs_files>>

\* helpers.rs:81: the temporary name becomes the final name; an error when
\* the temporary name is gone
Rename(task) ==
    /\ savers[task].pc = "rename"
    /\ IF savers[task].temp \in DOMAIN fs_dir
       THEN /\ fs_dir' = [name \in (DOMAIN fs_dir \ {savers[task].temp}) \cup {FinalPath} |->
                             IF name = FinalPath THEN fs_dir[savers[task].temp]
                             ELSE fs_dir[name]]
            /\ SaveStep(task, [savers[task] EXCEPT !.pc = "done"])
       ELSE /\ UNCHANGED fs_dir
            /\ SaveStep(task, [savers[task] EXCEPT !.pc = "failed"])
    /\ UNCHANGED fs_files

\* helpers.rs:70, 80, 81: File::create, flush or rename fails and `?` returns
\* the error
StepFails(task) ==
    /\ savers[task].pc \in {"create", "flush", "rename"}
    /\ SaveStep(task, [savers[task] EXCEPT !.pc = "failed"])
    /\ UNCHANGED <<fs_dir, fs_files>>

\* the task is aborted, or the process ends, between two steps
Crash(task) ==
    /\ savers[task].pc \in {"create", "write", "remove", "flush", "rename"}
    /\ SaveStep(task, [savers[task] EXCEPT !.pc = "crashed"])
    /\ UNCHANGED <<fs_dir, fs_files>>

Tick ==
    /\ millis < MaxMillis
    /\ millis' = millis + 1
    /\ UNCHANGED <<fs_dir, fs_files, savers, loader, pollVars, resolveVars, managerVars, offerVars, upstreamVars>>

\* helpers.rs:25-26: read_to_string opens the file under the final name ...
LoadOpen ==
    /\ loader.pc = "idle"
    /\ FinalPath \in DOMAIN fs_dir
    /\ loader' = [loader EXCEPT !.pc = "opened", !.file = fs_dir[FinalPath]]
    /\ UNCHANGED <<millis, fs_dir, fs_files, savers, pollVars, resolveVars, managerVars, offerVars, upstreamVars>>

\* ... and reads what the file holds
LoadRead ==
    /\ loader.pc = "opened"
    /\ loader' = [pc |-> "idle", file |-> 0, seen |-> loader.seen \cup {fs_files[loader.file]}]
    /\ UNCHANGED <<millis, fs_dir, fs_files, savers, pollVars, resolveVars, managerVars, offerVars, upstreamVars>>

SaveNext ==
    \/ \E task \in SaveTasks :
          \/ SaveStart(task)
          \/ Create(task)
          \/ Write(task)
          \/ WriteFails(task)
          \/ RemoveTemp(task)
          \/ Flush(task)
          \/ Rename(task)
          \/ StepFails(task)
          \/ Crash(task)
    \/ Tick
    \/ LoadOpen
    \/ LoadRead

SpecSave == SaveInit /\ [][SaveNext]_vars

\* the saves that have made their temporary name
Started == {task \in SaveTasks : savers[task].pc # "idle"}
\* the saves that hold an open temporary file
Opened == {task \in SaveTasks : savers[task].pc \in {"write", "remove", "flush", "rename"}}

\* no two started saves made the same temporary name
TempNamesDistinct ==
    \A t, u \in Started : t # u => savers[t].temp # savers[u].temp

FinalContentComplete == FinalPath \in DOMAIN fs_dir => Complete(fs_files[fs_dir[FinalPath]])

(***************************************************************************)
(* C8: while a save_classinfo runs, crashes or fails at any step, the file *)
(* under the final name is absent or holds a complete content, the one     *)
(* found at start or the one saved, and a load_classinfo racing it reads   *)
(* complete contents only.  Stated for saves that do not share their       *)
(* temporary name with another save.                                       *)
(***************************************************************************)
C8_AtomicSave ==
    TempNamesDistinct =>
        /\ FinalContentComplete
        /\ \A content \in loader.seen : Complete(content)
        /\ loader.pc = "opened" => Complete(fs_files[loader.file])

\* a save crashed after writing half of its record; the load that ran
\* meanwhile read the complete old content
C8_Witness ==
    /\ \E task \in SaveTasks :
          /\ Started = {task}
          /\ savers[task].pc = "crashed"
          /\ savers[task].offset = 1
          /\ fs_files[savers[task].file] # << >>
    /\ loader.seen = {Content("old")}
    /\ fs_files[fs_dir[FinalPath]] = Content("old")

(***************************************************************************)
(* C9 (as stated): two racing saves of one class write to distinct         *)
(* temporary files, also when they start within the same millisecond, so   *)
(* the file under the final name always holds the complete content of one  *)
(* save.  Refuted: the temporary name is made from the class and the       *)
(* millisecond clock only.                                                 *)
(***************************************************************************)
C9_Original ==
    /\ \A t, u \in Opened : t # u => savers[t].file # savers[u].file
    /\ FinalContentComplete

\* the saves that returned an error after File::create had made their file
FailedAfterCreate == {task \in SaveTasks : savers[task].pc = "failed" /\ savers[task].file # 0}

\* the final name leads to what it led to before any save started: the file
\* found at start, which is the first file, or nothing
FinalAsAtStart ==
    IF fs_files # << >> /\ fs_files[1] = Content("old")
    THEN FinalPath \in DOMAIN fs_dir /\ fs_dir[FinalPath] = 1
    ELSE FinalPath \notin DOMAIN fs_dir

(***************************************************************************)
(* C18 (as stated): when save_classinfo fails at a step after it created   *)
(* the temporary file (write, flush or rename), the temporary file is      *)
(* removed, the error is returned, and the file under the final name is    *)
(* as it was before the save.  Stated for a save that ran alone.  Refuted: *)
(* only a failed write removes the temporary file; a failed flush or       *)
(* rename returns the error and leaves it.                                 *)
(***************************************************************************)
C18_Original ==
    \A task \in FailedAfterCreate :
        Started = {task} =>
            /\ savers[task].temp \notin DOMAIN fs_dir
            /\ FinalAsAtStart

(***************************************************************************)
(* The manager's polling slot (manager/mod.rs:409-469) and the polling     *)
(* task behind it.  polling::create_poller makes a bounded command channel *)
(* and spawns the task that owns its receiver; the task waits for a        *)
(* command or a timer tick, runs one cycle, publishes the result and waits *)
(* again; it ends when the receiver of its results was dropped             *)
(* (manager/mod.rs:406-408).  Channel k belongs to task k.                 *)
(***************************************************************************)
\* the capacity of the command channel, and the number of start_polling calls
ChannelCapacity == 2
MaxStarts == 2

\* PollAction::DoPoll(poll_type)
PollActions == {"Default", "NewOffers", "FullUpdate"}

ManagerInit ==
    /\ PollerAtRest /\ ResolverAtRest /\ SaveAtRest /\ OffersAtRest /\ UpstreamAtRest
    /\ polling = None
    /\ channels = << >>
    /\ supervisors = << >>
    /\ manager = [alive |-> TRUE, calls |-> 0, last |-> "none"]

\* mutant: the task the slot holds is left running
AbortStored_Nothing(tasks) == tasks

\* JoinHandle::abort on the task the slot holds, if any
AbortStored(tasks) ==
    IF polling = None THEN tasks
    ELSE [tasks EXCEPT ![unwrap_or(polling, [handle |-> 0]).handle].abort = TRUE]

\* manager/mod.rs:409-433
StartPolling ==
    /\ manager.alive
    /\ Len(supervisors) < MaxStarts
    /\ supervisors' = Append(AbortStored(supervisors),
                             [state |-> "waiting", abort |-> FALSE, current |-> None,
                              listening |-> TRUE])
    /\ channels' = Append(channels, [queue |-> << >>, closed |-> FALSE])
    /\ polling' = Some([sender |-> Len(channels) + 1, handle |-> Len(supervisors) + 1])
    /\ UNCHANGED <<manager, pollVars, resolveVars, saveVars, offerVars, upstreamVars>>

\* mutant: a send on a channel whose receiver is gone still finds room
try_send_IgnoresClosed(ch, action) ==
    IF Len(channels[ch].queue) >= ChannelCapacity THEN "Full" ELSE "Sent"

\* Sender::try_send on channel ch
try_send(ch, action) ==
    IF channels[ch].closed THEN "Closed"
    ELSE IF Len(channels[ch].queue) >= ChannelCapacity THEN "Full"
    ELSE "Sent"

\* mutant: the command is sent with a send that waits for room in the channel
ManagerDoPoll_Waits(poll_type) ==
    /\ manager.alive
    /\ polling # None => try_send(unwrap_or(polling, [sender |-> 0]).sender, poll_type) # "Full"
    /\ IF polling = None
       THEN /\ manager' = [manager EXCEPT !.calls = 1 - @, !.last = "PollingNotSetup"]
            /\ UNCHANGED channels
       ELSE LET ch == unwrap_or(polling, [sender |-> 0]).sender
                sent == try_send(ch, poll_type)
            IN  /\ channels' = IF sent = "Sent"
                               THEN [channels EXCEPT ![ch].queue = Append(@, poll_type)]
                               ELSE channels
                /\ manager' = [manager EXCEPT
                                  !.calls = 1 - @,
                                  !.last = IF sent = "Sent" THEN "Ok" ELSE "PollingNotSetup"]
    /\ UNCHANGED <<polling, supervisors, pollVars, resolveVars, saveVars, offerVars, upstreamVars>>

\* manager/mod.rs:439-457
ManagerDoPoll(poll_type) ==
    /\ manager.alive
    /\ IF polling = None
       THEN /\ manager' = [manager EXCEPT !.calls = 1 - @, !.last = "PollingNotSetup"]
            /\ UNCHANGED channels
       ELSE LET ch == unwrap_or(polling, [sender |-> 0]).sender
                sent == try_send(ch, poll_type)
            IN  /\ channels' = IF sent = "Sent"
                               THEN [channels EXCEPT ![ch].queue = Append(@, poll_type)]
                               ELSE channels
                /\ manager' = [manager EXCEPT
                                  !.calls = 1 - @,
                                  !.last = CASE sent = "Sent" -> "Ok"
                                             [] sent = "Full" -> "PollingBufferFull"
                                             [] sent = "Closed" -> "PollingNotSetup"]
    /\ UNCHANGED <<polling, supervisors, pollVars, resolveVars, saveVars, offerVars, upstreamVars>>

\* mutant: the manager is dropped without a word to its task
DropManager_Forgets ==
    /\ manager.alive
    /\ manager' = [manager EXCEPT !.alive = FALSE]
    /\ UNCHANGED <<polling, channels, supervisors, pollVars, resolveVars, saveVars, offerVars, upstreamVars>>

\* manager/mod.rs:460-469
DropManager ==
    /\ manager.alive
    /\ manager' = [manager EXCEPT !.alive = FALSE]
    /\ supervisors' = AbortStored(supervisors)
    /\ UNCHANGED <<polling, channels, pollVars, resolveVars, saveVars, offerVars, upstreamVars>>

Running(task) == supervisors[task].state # "stopped" /\ ~supervisors[task].abort

\* the task takes the next command from its channel and starts a cycle
SupervisorReceive(task) ==
    /\ Running(task) /\ supervisors[task].state = "waiting"
    /\ channels[task].queue # << >>
    /\ channels' = [channels EXCEPT ![task].queue = Tail(@)]
    /\ supervisors' = [supervisors EXCEPT ![task].state = "polling",
                                          ![task].current = Some(Head(channels[task].queue))]
    /\ UNCHANGED <<polling, manager, pollVars, resolveVars, saveVars, offerVars, upstreamVars>>

\* the timer fires and the task starts a Default cycle
SupervisorTick(task) ==
    /\ Running(task) /\ supervisors[task].state = "waiting"
    /\ supervisors' = [supervisors EXCEPT ![task].state = "polling",
                                          ![task].current = Some("Default")]
    /\ UNCHANGED <<polling, channels, manager, pollVars, resolveVars, saveVars, offerVars, upstreamVars>>

\* the cycle returns and its result is published; the task ends, dropping
\* its command receiver, when nobody holds the receiver of the results
SupervisorPublish(task) ==
    /\ Running(task) /\ supervisors[task].state = "polling"
    /\ supervisors' = [supervisors EXCEPT
                          ![task].state = IF supervisors[task].listening THEN "waiting"
                                          ELSE "stopped",
                          ![task].current = None]
    /\ channels' = [channels EXCEPT ![task].closed = ~supervisors[task].listening]
    /\ UNCHANGED <<polling, manager, pollVars, resolveVars, saveVars, offerVars, upstreamVars>>

\* the caller of start_polling drops the receiver it was given
DropReceiver(task) ==
    /\ supervisors[task].listening
    /\ supervisors' = [supervisors EXCEPT ![task].listening = FALSE]
    /\ UNCHANGED <<polling, channels, manager, pollVars, resolveVars, saveVars, offerVars, upstreamVars>>

\* an aborted task ends at its next suspension point and drops its receiver
SupervisorStops(task) ==
    /\ supervisors[task].abort /\ supervisors[task].state # "stopped"
    /\ supervisors' = [supervisors EXCEPT ![task].state = "stopped", ![task].current = None]
    /\ channels' = [channels EXCEPT ![task].closed = TRUE]
    /\ UNCHANGED <<polling, manager, pollVars, resolveVars, saveVars, offerVars, upstreamVars>>

ManagerNext ==
    \/ StartPolling
    \/ \E poll_type \in PollActions : ManagerDoPoll(poll_type)
    \/ DropManager
    \/ \E task \in DOMAIN supervisors : SupervisorReceive(task)
    \/ \E task \in DOMAIN supervisors : SupervisorTick(task)
    \/ \E task \in DOMAIN supervisors : SupervisorPublish(task)
    \/ \E task \in DOMAIN supervisors : SupervisorStops(task)
    \/ \E task \in DOMAIN supervisors : DropReceiver(task)

SpecManager == ManagerInit /\ [][ManagerNext]_vars

\* the channel the slot's sender leads to is open and full
SlotChannelFull ==
    /\ polling # None
    /\ LET ch == unwrap_or(polling, [sender |-> 0]).sender
       IN  ~channels[ch].closed /\ Len(channels[ch].queue) = ChannelCapacity

(***************************************************************************)
(* C10: do_poll never waits: whatever the state of the channel, a call on  *)
(* a live manager can return at once; when the channel of the running      *)
(* supervisor is full the call returns PollingBufferFull, enqueues         *)
(* nothing, and leaves the supervisor and its queued commands as they are. *)
(***************************************************************************)
C10_Backpressure ==
    /\ [](manager.alive => \A poll_type \in PollActions : ENABLED ManagerDoPoll(poll_type))
    /\ [][manager'.calls # manager.calls /\ SlotChannelFull
            => /\ manager'.last = "PollingBufferFull"
               /\ channels' = channels
               /\ supervisors' = supervisors
               /\ polling' = polling]_vars

\* do_poll has just returned PollingBufferFull: the channel holds its full
\* queue and the supervisor is in the middle of a cycle
C10_Witness ==
    /\ manager.last = "PollingBufferFull"
    /\ SlotChannelFull
    /\ LET task == unwrap_or(polling, [handle |-> 0]).handle
       IN  Running(task) /\ supervisors[task].state = "polling"

\* this step is a call of do_poll
DoPollStep == manager'.calls # manager.calls

\* the channel the slot's sender leads to
SlotChannel == unwrap_or(polling, [sender |-> 0]).sender

\* the channel made by the most recent start_polling
NewestChannel == Len(channels)

(***************************************************************************)
(* C11: do_poll returns PollingNotSetup and delivers no command when       *)
(* start_polling was never called or the command receiver of the slot's    *)
(* supervisor is closed; it returns Ok only when the command was put on    *)
(* the channel made by the most recent start_polling.                      *)
(***************************************************************************)
C11_NotSetup ==
    [][DoPollStep =>
        /\ (polling = None \/ channels[SlotChannel].closed)
              => manager'.last = "PollingNotSetup" /\ channels' = channels
        /\ manager'.last = "Ok"
              => /\ polling # None /\ SlotChannel = NewestChannel
                 /\ \E poll_type \in PollActions :
                       channels' = [channels EXCEPT
                                       ![NewestChannel].queue = Append(@, poll_type)]]_vars

\* do_poll has just returned PollingNotSetup on a manager that started
\* polling: the supervisor had ended and dropped its command receiver
C11_Witness ==
    /\ manager.alive
    /\ manager.last = "PollingNotSetup"
    /\ polling # None
    /\ channels[SlotChannel].closed
    /\ channels[SlotChannel].queue = << >>

\* the tasks on which abort was never called
NotAborted == {task \in DOMAIN supervisors : ~supervisors[task].abort}

(***************************************************************************)
(* C12: after any sequence of start_polling calls at most one supervisor   *)
(* task has not been aborted, the slot holds the newest task and its       *)
(* sender, and a do_poll command goes to the newest supervisor's channel   *)
(* only.                                                                   *)
(***************************************************************************)
C12_OneSupervisor ==
    /\ [](/\ Cardinality(NotAborted) <= 1
          /\ polling # None =>
                /\ unwrap_or(polling, [handle |-> 0]).handle = Len(supervisors)
                /\ SlotChannel = NewestChannel
                /\ NotAborted \subseteq {Len(supervisors)})
    /\ [][DoPollStep =>
            \A ch \in DOMAIN channels : ch # NewestChannel => channels'[ch] = channels[ch]]_vars

\* polling was started twice: the first task is aborted but has not ended
\* yet, and the command of a later do_poll waits on the second channel
C12_Witness ==
    /\ Len(supervisors) = 2
    /\ supervisors[1].abort /\ supervisors[1].state = "polling"
    /\ ~supervisors[2].abort
    /\ manager.last = "Ok"
    /\ channels[1].queue = << >>
    /\ channels[2].queue # << >>

(***************************************************************************)
(* C13: when the manager is dropped its supervisor task is aborted: from   *)
(* then on no task starts a poll cycle and no task publishes a result; a   *)
(* task can only end.                                                      *)
(***************************************************************************)
C13_DropAborts ==
    /\ [](~manager.alive => \A task \in DOMAIN supervisors : supervisors[task].abort)
    /\ [][~manager.alive =>
            \A task \in DOMAIN supervisors :
                supervisors'[task].state \in {supervisors[task].state, "stopped"}]_vars

\* the manager was dropped in the middle of a cycle: the task has ended and
\* the command that was waiting in its channel was never served
C13_Witness ==
    /\ ~manager.alive
    /\ polling # None
    /\ supervisors[Len(supervisors)].state = "stopped"
    /\ supervisors[Len(supervisors)].listening
    /\ channels[SlotChannel].queue # << >>

\* the tasks with a poll cycle in flight: the cycle was started and the task
\* has neither published its result nor ended
InFlight == {task \in DOMAIN supervisors : supervisors[task].state = "polling"}

(***************************************************************************)
(* C14 (as stated): at most one poll cycle is in flight for a manager at   *)
(* any time, also when start_polling restarts polling while a cycle of the *)
(* old supervisor is in flight.  Refuted: start_polling calls abort on the *)
(* old task and spawns the new one without waiting for the old task to     *)
(* end.                                                                    *)
(***************************************************************************)
C14_Original == Cardinality(InFlight) <= 1

(***************************************************************************)
(* TradeOfferManager::accept_offer, cancel_offer and decline_offer         *)
(* (manager/mod.rs:79-146) on one TradeOffer.  Each makes at most one call *)
(* to SteamTradeOfferAPI, which returns Ok or an error.                    *)
(***************************************************************************)
\* the states of the offer the methods are called with
OfferStates == TradeOfferState \cup {"Declined"}

\* the number of API calls after which the specification stops
MaxApiCalls == 3

ApiResults == {"Ok", "Err"}

\* what a method leaves: the offer, what it returned, the API calls it made
OfferOutcome(o, result, calls) == [offer |-> o, result |-> result, calls |-> calls]

\* mutant: an offer of any state is accepted
accept_offer_AnyState(o, api_result) ==
    IF o.is_our_offer
    THEN OfferOutcome(o, "Parameter", << >>)
    ELSE IF api_result = "Ok"
    THEN OfferOutcome([o EXCEPT !.trade_offer_state = "Accepted"], "Ok", <<"accept_offer">>)
    ELSE OfferOutcome(o, "Err", <<"accept_offer">>)

\* manager/mod.rs:79-93
accept_offer(o, api_result) ==
    IF o.is_our_offer
    THEN OfferOutcome(o, "Parameter", << >>)
    ELSE IF o.trade_offer_state # "Active"
    THEN OfferOutcome(o, "Parameter", << >>)
    ELSE IF api_result = "Ok"
    THEN OfferOutcome([o EXCEPT !.trade_offer_state = "Accepted"], "Ok", <<"accept_offer">>)
    ELSE OfferOutcome(o, "Err", <<"accept_offer">>)

\* manager/mod.rs:108-120
cancel_offer(o, api_result) ==
    IF ~o.is_our_offer
    THEN OfferOutcome(o, "Parameter", << >>)
    ELSE IF api_result = "Ok"
    THEN OfferOutcome([o EXCEPT !.trade_offer_state = "Canceled"], "Ok", <<"cancel_offer">>)
    ELSE OfferOutcome(o, "Err", <<"cancel_offer">>)

\* manager/mod.rs:134-146
decline_offer(o, api_result) ==
    IF o.is_our_offer
    THEN OfferOutcome(o, "Parameter", << >>)
    ELSE IF api_result = "Ok"
    THEN OfferOutcome([o EXCEPT !.trade_offer_state = "Declined"], "Ok", <<"decline_offer">>)
    ELSE OfferOutcome(o, "Err", <<"decline_offer">>)

\* an offer of ours or of a partner, in any state, and no call made yet
OfferInit ==
    /\ PollerAtRest /\ ResolverAtRest /\ SaveAtRest /\ ManagerAtRest /\ UpstreamAtRest
    /\ trade_offer \in [is_our_offer : BOOLEAN, trade_offer_state : OfferStates]
    /\ api_calls = << >>
    /\ offer_result = [method |-> "none"]

\* one call of a method, from its first line to its return
OfferCall(method, out) ==
    /\ Len(api_calls) < MaxApiCalls
    /\ trade_offer' = out.offer
    /\ api_calls' = api_calls \o out.calls
    /\ offer_result' = [method |-> method, result |-> out.result]
    /\ UNCHANGED <<pollVars, resolveVars, saveVars, managerVars, upstreamVars>>

AcceptOffer ==
    \E api_result \in ApiResults :
        OfferCall("accept_offer", accept_offer(trade_offer, api_result))

CancelOffer ==
    \E api_result \in ApiResults :
        OfferCall("cancel_offer", cancel_offer(trade_offer, api_result))

DeclineOffer ==
    \E api_result \in ApiResults :
        OfferCall("decline_offer", decline_offer(trade_offer, api_result))

OfferNext ==
    \/ AcceptOffer
    \/ CancelOffer
    \/ DeclineOffer

SpecOffer == OfferInit /\ [][OfferNext]_vars

\* the guard of each method and the state it sets
GuardPasses(method, o) ==
    CASE method = "accept_offer" -> ~o.is_our_offer /\ o.trade_offer_state = "Active"
      [] method = "cancel_offer" -> o.is_our_offer
      [] method = "decline_offer" -> ~o.is_our_offer

StateSet(method) ==
    CASE method = "accept_offer" -> "Accepted"
      [] method = "cancel_offer" -> "Canceled"
      [] method = "decline_offer" -> "Declined"

(***************************************************************************)
(* C19: accept_offer, cancel_offer and decline_offer set the offer's state *)
(* (Accepted, Canceled, Declined) exactly when their guard passes and the  *)
(* API call succeeds.  When the guard fails (accept: the offer is ours or  *)
(* not Active; cancel: not ours; decline: ours) they return a Parameter    *)
(* error and make no API call; when the guard passes they make one API     *)
(* call, and when it fails they return its error and leave the offer as it *)
(* was.                                                                    *)
(***************************************************************************)
C19_OfferActions ==
    [][LET method == offer_result'.method
           result == offer_result'.result
       IN  IF ~GuardPasses(method, trade_offer)
           THEN /\ result = "Parameter"
                /\ api_calls' = api_calls
                /\ trade_offer' = trade_offer
           ELSE /\ api_calls' = Append(api_calls, method)
                /\ result \in {"Ok", "Err"}
                /\ result = "Ok" =>
                      trade_offer' = [trade_offer EXCEPT !.trade_offer_state = StateSet(method)]
                /\ result = "Err" => trade_offer' = trade_offer]_vars

\* an offer of a partner that was accepted; the accept_offer called on it
\* again returned a Parameter error and only the first call reached the API
C19_Witness ==
    /\ ~trade_offer.is_our_offer
    /\ trade_offer.trade_offer_state = "Accepted"
    /\ api_calls = <<"accept_offer">>
    /\ offer_result = [method |-> "accept_offer", result |-> "Parameter"]

(***************************************************************************)
(* The retry specification: one Poller polled by the supervisor's periodic *)
(* Default ticks while the clock advances, Steam's offers change and the   *)
(* classinfos of an offer arrive late.  What a fetch returns is what Steam *)
(* holds, filtered by the parameters of the request.                       *)
(***************************************************************************)
MaxTicks == 2
TickSeconds == FullUpdateSeconds
MaxTime == StartTime + MaxTicks * TickSeconds

PartnerOfferId == CHOOSE id \in OfferIds \ OurOfferIds : TRUE
OwnOfferId == CHOOSE id \in OfferIds \cap OurOfferIds : TRUE

DefaultPoll == [kind |-> "Default", date |-> 0]

UpstreamOffer(id, state, created, updated) ==
    [trade_offer_state |-> state, is_our_offer |-> id \in OurOfferIds,
     time_created |-> created, time_updated |-> updated, glitched |-> FALSE]

\* GetTradeOffers as get_raw_trade_offers requests it (api/mod.rs:382-432):
\* without active_only every offer; with active_only the active offers and
\* the offers updated since time_historical_cutoff
UpstreamFetch(params) ==
    Restrict(upstream.offers,
             {id \in DOMAIN upstream.offers :
                \/ ~params.active_only
                \/ upstream.offers[id].trade_offer_state \in
                        {"Active", "CreatedNeedsConfirmation"}
                \/ upstream.offers[id].time_updated >= params.offers_since})

RetryInit ==
    /\ ResolverAtRest /\ SaveAtRest /\ ManagerAtRest /\ OffersAtRest
    /\ now = StartTime
    /\ poller = [cancel_duration |-> None,
                 poll_full_update_duration |-> FullUpdateSeconds]
    /\ \E sm \in {<< >>, [id \in {PartnerOfferId} |-> "Active"]},
          last \in {None, Some(OldTime)} :
          poll_data = [offers_since |-> last, last_poll |-> last,
                       last_poll_full_update |-> last, state_map |-> sm,
                       changed |-> FALSE]
    /\ poll_file = IF poll_data = NewPollData THEN None ELSE Some(PollDocument(poll_data))
    /\ cycle = IdleCycle
    /\ \E state \in ReceivedOfferState :
          upstream = [offers |-> [id \in {PartnerOfferId} |->
                                    UpstreamOffer(id, state, OldTime, OldTime)],
                      resolvable |-> {OwnOfferId}]

\* the clock advances
ClockTick ==
    /\ now < MaxTime
    /\ now' = now + TickSeconds
    /\ UNCHANGED <<poller, poll_data, poll_file, cycle, upstream,
                   resolveVars, saveVars, managerVars, offerVars>>

\* an offer is sent
OfferSent ==
    /\ \E id \in OfferIds \ DOMAIN upstream.offers :
          upstream' = [upstream EXCEPT
                          !.offers = [i \in DOMAIN upstream.offers \cup {id} |->
                                         IF i = id
                                         THEN UpstreamOffer(id, "Active", now, now)
                                         ELSE upstream.offers[i]]]
    /\ UNCHANGED <<pollVars, resolveVars, saveVars, managerVars, offerVars>>

\* an active offer is accepted
OfferAccepted ==
    /\ \E id \in DOMAIN upstream.offers :
          /\ upstream.offers[id].trade_offer_state = "Active"
          /\ upstream' = [upstream EXCEPT
                             !.offers[id].trade_offer_state = "Accepted",
                             !.offers[id].time_updated = now]
    /\ UNCHANGED <<pollVars, resolveVars, saveVars, managerVars, offerVars>>

\* the classinfos of an offer become obtainable, and stay so
ClassInfoArrives ==
    /\ \E id \in OfferIds \ upstream.resolvable :
          upstream' = [upstream EXCEPT !.resolvable = @ \cup {id}]
    /\ UNCHANGED <<pollVars, resolveVars, saveVars, managerVars, offerVars>>

\* a Default tick of the supervisor whose fetch fails
DefaultTickFetchFails ==
    /\ upstream.offers # << >>
    /\ RunCycle(DefaultPoll, NoAnswers)

\* what Steam and the classinfo endpoint answer to a Default cycle
DefaultTickAnswers ==
    LET offers == UpstreamFetch(FetchParams(poll_data, poller, now, DefaultPoll))
    IN  [NoAnswers EXCEPT
            !.fetch_ok = TRUE,
            !.offers = offers,
            !.unresolvable = DiffPoll(poll_data.state_map, offers) \ upstream.resolvable]

\* a Default tick of the supervisor whose cycle runs to its end
DefaultTick ==
    /\ \E in \in {DefaultTickAnswers} : RunCycle(DefaultPoll, in)

\* ENABLED <<DefaultTick>>_vars as a state predicate: the cycle of a Default
\* tick would change the poll data, the document or the returned result
DefaultTickActs ==
    \E out \in {do_poll(poll_data, poll_file, poller, now, DefaultPoll, DefaultTickAnswers)} :
        <<out.poll_data, out.poll_file, out.cycle>> # <<poll_data, poll_file, cycle>>

RetryNext ==
    \/ ClockTick
    \/ OfferSent
    \/ OfferAccepted
    \/ ClassInfoArrives
    \/ DefaultTickFetchFails
    \/ DefaultTick

\* the ticks are periodic and fair: the clock advances, and a tick whose
\* cycle runs to its end keeps coming.  The second condition is
\* WF_vars(DefaultTick) with its ENABLED written as DefaultTickActs.
SpecRetry ==
    /\ RetryInit
    /\ [][RetryNext]_vars
    /\ WF_vars(ClockTick)
    /\ (<>[]DefaultTickActs => []<><<DefaultTick>>_vars)

\* the state Steam holds for the offer differs from the recorded one
PendingChange(id) ==
    /\ id \in DOMAIN upstream.offers
    /\ EntryAfter(id) # Some(upstream.offers[id].trade_offer_state)

\* the last cycle emitted the offer in the state Steam holds
EmittedCurrent(id) ==
    /\ Returned /\ cycle.result = "Ok"
    /\ id \in DOMAIN upstream.offers
    /\ id \in Emitted
    /\ cycle.poll[id].trade_offer_state = upstream.offers[id].trade_offer_state

\* the last cycle was an incremental Default cycle whose fetch did not return
\* the offer: its time_updated is older than the cutoff and it is not active
HiddenFrom(id) ==
    /\ Returned /\ cycle.result = "Ok"
    /\ cycle.params.active_only
    /\ id \in DOMAIN upstream.offers \ DOMAIN Fetched
    /\ upstream.offers[id].time_updated < cycle.params.offers_since

(***************************************************************************)
(* C27: an offer whose change is not yet recorded (as after a cycle that   *)
(* excluded it for a missing classinfo) and whose classinfos have become   *)
(* obtainable is emitted by a later cycle, in the state Steam holds, under *)
(* fair periodic Default ticks: neither the high-water mark moving past    *)
(* its time_updated nor the active-only fetches hide it forever (the       *)
(* clock of the model stops at MaxTime, so the offer is one pending before *)
(* that).                                                                  *)
(***************************************************************************)
C27_EventuallyEmitted ==
    \A id \in OfferIds :
        (PendingChange(id) /\ id \in upstream.resolvable /\ now < MaxTime)
            ~> EmittedCurrent(id)

\* the partner's offer, accepted long ago, was excluded by the forced full
\* update; its classinfos arrived and the next incremental cycle did not
\* fetch it any more, its change still pending
C27_Witness ==
    /\ HiddenFrom(PartnerOfferId)
    /\ PendingChange(PartnerOfferId)
    /\ PartnerOfferId \in upstream.resolvable
    /\ now < MaxTime

(***************************************************************************)
(* C28 (as stated): a cycle whose fetch succeeded returns success, with    *)
(* the offers whose classinfos could not be obtained left out of the       *)
(* emitted batch.  The `?` of poller.rs:173 on map_raw_trade_offers, which *)
(* passes on the error of a failed GetAssetClassInfo request               *)
(* (api/mod.rs:493, 374, 299), makes the cycle return that error.          *)
(***************************************************************************)
C28_Original ==
    FetchSucceeded =>
        /\ cycle.result = "Ok"
        /\ Emitted = DiffPoll(StartMap, MarkCanceled(Fetched, cycle.in.cancel_ok \cap cycle.cancel_sent))
                        \ cycle.in.unresolvable

(***************************************************************************)
(* The batch specification: get_asset_classinfos (api/mod.rs:304-379) step *)
(* by step, over calls that need more classes of one app than one chunk of *)
(* get_app_asset_classinfos (api/mod.rs:287-301) holds.  `resolved` is the *)
(* call: its position, the batches still to send, the batch in flight and  *)
(* the batches sent.                                                       *)
(***************************************************************************)
chuck_size == 100
ChunkOver == 1
MaxResolves == 2

\* the numbers of classes of one app a call asks for
KeyCounts == (0..ChunkOver) \cup {k * chuck_size + d : k \in 1..2, d \in 0..ChunkOver}

FirstApp == CHOOSE appid \in AppIds : \A other \in AppIds : appid <= other
OtherApp == CHOOSE appid \in AppIds : appid # FirstApp

BatchClasses(n, m) ==
    {<<FirstApp, classid, None>> : classid \in 1..n}
        \cup {<<OtherApp, classid, None>> : classid \in 1..m}

\* api/mod.rs:361-370: the needed classes of one app as a Vec, in the order
\* the set of needed classes is iterated (by class id, up or down; no two
\* classes of an app of this specification share a class id)
ClassVec(classes, ascending) ==
    LET top == IF classes = {} THEN 0 ELSE Max({c[2] : c \in classes})
        of(classid) == {c \in classes : c[2] = classid}
        ids == SelectSeq([i \in 1..top |-> IF ascending THEN i ELSE top + 1 - i],
                         LAMBDA classid : of(classid) # {})
    IN  [k \in 1..Len(ids) |-> CHOOSE c \in of(ids[k]) : TRUE]

\* mutant: the classes of an app are sent in one batch
Chunks_Whole(vec, size) ==
    [k \in 1..(IF Len(vec) = 0 THEN 0 ELSE 1) |-> {vec[i] : i \in 1..Len(vec)}]

\* slice::chunks (api/mod.rs:292-293)
Chunks(vec, size) ==
    [k \in 1..((Len(vec) + size - 1) \div size) |->
        {vec[i] : i \in ((k - 1) * size + 1)..(IF k * size < Len(vec) THEN k * size ELSE Len(vec))}]

\* api/mod.rs:372-376 over api/mod.rs:295-297: the chunks of every app, app
\* after app in the order the map of apps is iterated
RECURSIVE Batches(_, _, _)
Batches(needed, order, ascending) ==
    IF order = << >> THEN << >>
    ELSE Chunks(ClassVec({c \in needed : c[1] = Head(order)}, ascending), chuck_size)
            \o Batches(needed, Tail(order), ascending)

\* a process starts with an empty memory cache; the data directory is empty
\* or holds the record of one class; the endpoint holds a record of every class
BatchInit ==
    /\ PollerAtRest /\ SaveAtRest /\ ManagerAtRest /\ OffersAtRest /\ UpstreamAtRest
    /\ classinfo_cache = << >>
    /\ \E names \in SUBSET {FinalName(c) : c \in BatchClasses(1, 0)} :
          data_directory = [name \in names |-> "{b}"]
    /\ remote = [class \in BatchClasses(2 * chuck_size + ChunkOver, ChunkOver) |-> "{a}"]
    /\ resolved = [phase |-> "idle", calls |-> 0]

BatchFrame == UNCHANGED <<remote, pollVars, saveVars, managerVars, offerVars, upstreamVars>>

NoFaults(order) ==
    [order |-> order, down |-> {}, read_fails |-> {}, save_fails |-> {}, race |-> None]

\* api/mod.rs:308-359: the memory cache and the files are consulted and the
\* call is left with the classes it needs from the endpoint
CallStarts ==
    /\ resolved.phase \in {"idle", "returned"}
    /\ resolved.calls < MaxResolves
    /\ \E n \in KeyCounts, m \in 0..ChunkOver, order \in Orders(AppIds), ascending \in BOOLEAN :
       \E classes \in {BatchClasses(n, m)} :
       \E hits \in {classes \cap DOMAIN classinfo_cache} :
       \E loaded \in {load_classinfos(classes \ hits, data_directory)} :
          /\ classinfo_cache' = insert_map(classinfo_cache, loaded)
          /\ resolved' =
                [phase |-> IF classes = {} THEN "returned" ELSE "remote",
                 calls |-> resolved.calls + 1,
                 classes |-> classes,
                 start |-> [cache |-> classinfo_cache, files |-> data_directory],
                 result |-> "Ok",
                 map |-> loaded @@ Restrict(classinfo_cache, hits),
                 disk_read |-> classes \ hits,
                 loaded |-> DOMAIN loaded,
                 todo |-> Batches((classes \ hits) \ DOMAIN loaded, order, ascending),
                 in_flight |-> {},
                 sent |-> << >>]
    /\ UNCHANGED data_directory
    /\ BatchFrame

\* api/mod.rs:252-255: the request of the next chunk is sent and awaited
SendBatch ==
    /\ resolved.phase = "remote"
    /\ resolved.in_flight = {}
    /\ resolved.todo # << >>
    /\ resolved' = [resolved EXCEPT !.in_flight = {Head(resolved.todo)},
                                    !.todo = Tail(resolved.todo),
                                    !.sent = Append(resolved.sent, Head(resolved.todo))]
    /\ UNCHANGED <<classinfo_cache, data_directory>>
    /\ BatchFrame

\* api/mod.rs:256-283: the response of the chunk in flight is saved, parsed
\* and cached
BatchAnswered ==
    /\ resolved.phase = "remote"
    /\ \E batch \in resolved.in_flight :
       \E st \in {get_app_asset_classinfos_chunk(
                     [cache |-> classinfo_cache, files |-> data_directory,
                      map |-> resolved.map, requested |-> {}],
                     batch, remote, NoFaults(<< >>))} :
          /\ classinfo_cache' = st.cache
          /\ data_directory' = st.files
          /\ resolved' = [resolved EXCEPT !.in_flight = {}, !.map = st.map]
    /\ BatchFrame

\* api/mod.rs:252-256, 299, 374: the request in flight fails and the call
\* returns its error
BatchFails ==
    /\ resolved.phase = "remote"
    /\ resolved.in_flight # {}
    /\ resolved' = [resolved EXCEPT !.phase = "returned", !.result = "Err",
                                    !.in_flight = {}, !.map = << >>]
    /\ UNCHANGED <<classinfo_cache, data_directory>>
    /\ BatchFrame

\* api/mod.rs:378: every chunk was answered
CallReturns ==
    /\ resolved.phase = "remote"
    /\ resolved.in_flight = {}
    /\ resolved.todo = << >>
    /\ resolved' = [resolved EXCEPT !.phase = "returned"]
    /\ UNCHANGED <<classinfo_cache, data_directory>>
    /\ BatchFrame

BatchNext ==
    \/ CallStarts
    \/ SendBatch
    \/ BatchAnswered
    \/ BatchFails
    \/ CallReturns

SpecBatch == BatchInit /\ [][BatchNext]_vars

\* a call is under way or has returned
Called == resolved.phase \in {"remote", "returned"} /\ resolved.calls > 0

\* the classes of the batches sent so far
SentClasses == UNION {resolved.sent[i] : i \in DOMAIN resolved.sent}

\* the classes the call found in the memory cache
MemoryHits == resolved.classes \cap DOMAIN resolved.start.cache

(***************************************************************************)
(* C30: within one get_asset_classinfos call a class found in the memory   *)
(* cache is neither read from disk nor sent to the endpoint; a class       *)
(* loaded from disk is in the memory cache and is not sent; every other    *)
(* class of the call is sent exactly once (by the time the call returns    *)
(* success), in a batch of classes of one app and of at most chuck_size    *)
(* classes; and at most one batch of the call is in flight at a time.      *)
(***************************************************************************)
C30_Waterfall ==
    Called =>
        /\ MemoryHits \cap resolved.disk_read = {}
        /\ MemoryHits \cap SentClasses = {}
        /\ resolved.loaded \subseteq DOMAIN classinfo_cache
        /\ resolved.loaded \cap SentClasses = {}
        /\ SentClasses \subseteq (resolved.classes \ MemoryHits) \ resolved.loaded
        /\ \A i, j \in DOMAIN resolved.sent :
              i # j => resolved.sent[i] \cap resolved.sent[j] = {}
        /\ \A i \in DOMAIN resolved.sent :
              /\ resolved.sent[i] # {}
              /\ Cardinality(resolved.sent[i]) <= chuck_size
              /\ \A c, d \in resolved.sent[i] : c[1] = d[1]
        /\ Cardinality(resolved.in_flight) <= 1
        /\ (resolved.phase = "returned" /\ resolved.result = "Ok") =>
              SentClasses = (resolved.classes \ MemoryHits) \ resolved.loaded

\* the second call of a process asked for two full chunks and one class more
\* of one app and a class of the other: the first class was in the memory
\* cache, and the rest went out in three batches, two of them full
C30_Witness ==
    /\ resolved.phase = "returned" /\ resolved.result = "Ok"
    /\ resolved.calls = MaxResolves
    /\ MemoryHits # {}
    /\ Cardinality(resolved.classes) = 2 * chuck_size + 2
    /\ Len(resolved.sent) = 3
    /\ Cardinality({i \in DOMAIN resolved.sent :
                       Cardinality(resolved.sent[i]) = chuck_size}) = 2
    /\ {c[1] : c \in SentClasses} = AppIds

\* the batches of the call that were answered: all the sent ones but the one
\* in flight or failed
AnsweredBatches ==
    IF resolved.in_flight # {} \/ resolved.result = "Err"
    THEN SubSeq(resolved.sent, 1, Len(resolved.sent) - 1)
    ELSE resolved.sent

\* the classes the call has resolved so far: loaded from disk, or returned
\* with a parseable record by an answered batch
ResolvedInCall ==
    resolved.loaded
        \cup UNION {DOMAIN ParseableRecords(GetAssetClassInfoResponse(remote, AnsweredBatches[i])) :
                        i \in DOMAIN AnsweredBatches}

CallFailed == Called /\ resolved.phase = "returned" /\ resolved.result = "Err"

\* when a call has returned the error of a failed batch, every class it had
\* resolved is in the memory cache
ResolvedAreCached == CallFailed => ResolvedInCall \subseteq DOMAIN classinfo_cache

\* the call that follows a failed call and asks for the same classes has
\* none of the classes the failed call resolved among its batches
RetrySkipsResolved ==
    [][(CallFailed /\ resolved'.calls = resolved.calls + 1
            /\ resolved'.classes = resolved.classes)
        => /\ ResolvedInCall \subseteq resolved'.classes \cap DOMAIN resolved'.start.cache
           /\ \A i \in DOMAIN resolved'.todo : resolved'.todo[i] \cap ResolvedInCall = {}]_vars

(***************************************************************************)
(* C31: when a remote batch fails and get_asset_classinfos returns the     *)
(* error, every class resolved earlier in the call (loaded from disk or    *)
(* returned by an earlier answered batch) is in the memory cache, and a    *)
(* retry of the call finds it there and does not send it to the endpoint.  *)
(***************************************************************************)
C31_ResolvedSurviveFailure ==
    /\ []ResolvedAreCached
    /\ RetrySkipsResolved

\* a call loaded one class from disk, had a full batch answered and returned
\* the error of its second batch
C31_Witness ==
    /\ CallFailed
    /\ resolved.loaded # {}
    /\ Len(resolved.sent) = 2
    /\ Cardinality(ResolvedInCall) = chuck_size + 1
    /\ ResolvedInCall \subseteq DOMAIN classinfo_cache

(***************************************************************************)
(* The concurrent specification: two tasks (a poll cycle and a direct      *)
(* inventory fetch) call get_asset_classinfos (api/mod.rs:304-379) on one  *)
(* SteamTradeOfferAPI: one memory cache behind its Mutex, one data         *)
(* directory, one endpoint.  A task moves from await to await; taking the  *)
(* Mutex is a step of its own.  `resolved` holds the holder of the Mutex,  *)
(* the files the process started with, and each task's call.               *)
(***************************************************************************)
ResolverTasks == {"poll", "inventory"}

\* api/mod.rs:361-376: the needed classes grouped by app, in the order the
\* map of apps is iterated; every group is smaller than one chunk
RECURSIVE AppBatches(_, _)
AppBatches(needed, order) ==
    IF order = << >> THEN << >>
    ELSE LET classes == {c \in needed : c[1] = Head(order)}
         IN  (IF classes = {} THEN << >> ELSE <<classes>>) \o AppBatches(needed, Tail(order))

IdleTask == [pc |-> "idle"]

\* the endpoint holds a different record for each of the two keys of class 1
ConcurrentInit ==
    /\ PollerAtRest /\ SaveAtRest /\ ManagerAtRest /\ OffersAtRest /\ UpstreamAtRest
    /\ classinfo_cache = << >>
    /\ \E names \in SUBSET {FinalName(c) : c \in ClassInfoClasses \ Contended(ClassInfoClasses)} :
          data_directory = [name \in names |-> "{a}"]
    /\ remote = [class \in ClassInfoClasses |-> IF class[3] = None THEN "{a}" ELSE "{b}"]
    /\ resolved = [lock |-> None, start_files |-> data_directory,
                   tasks |-> [t \in ResolverTasks |-> IdleTask]]

ConcurrentFrame == UNCHANGED <<remote, pollVars, saveVars, managerVars, offerVars, upstreamVars>>

TaskAt(t, pc) == resolved.tasks[t].pc = pc

\* api/mod.rs:304-312: a task calls get_asset_classinfos
TaskCalls ==
    /\ \E t \in ResolverTasks, classes \in SUBSET ClassInfoClasses, order \in Orders(AppIds) :
          /\ TaskAt(t, "idle")
          /\ classes # {}
          /\ resolved' = [resolved EXCEPT !.tasks[t] =
                            [pc |-> "lock", next |-> "lookup", classes |-> classes,
                             order |-> order, result |-> "Ok", map |-> << >>,
                             needed |-> classes, loaded |-> << >>, todo |-> << >>,
                             records |-> << >>]]
    /\ UNCHANGED <<classinfo_cache, data_directory>>
    /\ ConcurrentFrame

\* classinfo_cache.lock().unwrap() (api/mod.rs:316, 346, 281): the task
\* takes the Mutex when no task holds it
TaskLocks ==
    /\ \E t \in ResolverTasks :
          /\ TaskAt(t, "lock")
          /\ resolved.lock = None
          /\ resolved' = [resolved EXCEPT !.lock = Some(t),
                                          !.tasks[t].pc = resolved.tasks[t].next]
    /\ UNCHANGED <<classinfo_cache, data_directory>>
    /\ ConcurrentFrame

\* mutant: the lock of the pass over the memory cache is kept
TaskLookup_KeepsLock ==
    /\ \E t \in ResolverTasks :
          /\ TaskAt(t, "lookup")
          /\ \E task \in {resolved.tasks[t]} :
             \E hits \in {task.classes \cap DOMAIN classinfo_cache} :
                resolved' = [resolved EXCEPT
                    !.tasks[t].map = Restrict(classinfo_cache, hits),
                    !.tasks[t].needed = task.classes \ hits,
                    !.tasks[t].pc = IF task.classes \ hits = {} THEN "group" ELSE "load"]
    /\ UNCHANGED <<classinfo_cache, data_directory>>
    /\ ConcurrentFrame

\* api/mod.rs:314-331: the pass over the memory cache; the lock is dropped
\* at the end of the block
TaskLookup ==
    /\ \E t \in ResolverTasks :
          /\ TaskAt(t, "lookup")
          /\ \E task \in {resolved.tasks[t]} :
             \E hits \in {task.classes \cap DOMAIN classinfo_cache} :
                resolved' = [resolved EXCEPT
                    !.lock = None,
                    !.tasks[t].map = Restrict(classinfo_cache, hits),
                    !.tasks[t].needed = task.classes \ hits,
                    !.tasks[t].pc = IF task.classes \ hits = {} THEN "group" ELSE "load"]
    /\ UNCHANGED <<classinfo_cache, data_directory>>
    /\ ConcurrentFrame

\* api/mod.rs:333-343: the files of the needed classes are loaded
TaskLoads ==
    /\ \E t \in ResolverTasks :
          /\ TaskAt(t, "load")
          /\ \E loaded \in {load_classinfos(resolved.tasks[t].needed, data_directory)} :
                resolved' = [resolved EXCEPT
                    !.tasks[t].loaded = loaded,
                    !.tasks[t].pc = IF loaded = << >> THEN "group" ELSE "lock",
                    !.tasks[t].next = "insert"]
    /\ UNCHANGED <<classinfo_cache, data_directory>>
    /\ ConcurrentFrame

\* api/mod.rs:345-358: the loaded classes are inserted into the memory cache
\* and the result; the lock is dropped at the end of the block
TaskInsertsLoaded ==
    /\ \E t \in ResolverTasks :
          /\ TaskAt(t, "insert")
          /\ \E task \in {resolved.tasks[t]} :
                /\ classinfo_cache' = insert_map(classinfo_cache, task.loaded)
                /\ resolved' = [resolved EXCEPT
                      !.lock = None,
                      !.tasks[t].map = task.loaded @@ task.map,
                      !.tasks[t].needed = task.needed \ DOMAIN task.loaded,
                      !.tasks[t].pc = "group"]
    /\ UNCHANGED data_directory
    /\ ConcurrentFrame

\* api/mod.rs:361-370: the needed classes are grouped by app
TaskGroups ==
    /\ \E t \in ResolverTasks :
          /\ TaskAt(t, "group")
          /\ resolved' = [resolved EXCEPT
                !.tasks[t].todo = AppBatches(resolved.tasks[t].needed, resolved.tasks[t].order),
                !.tasks[t].pc = "request"]
    /\ UNCHANGED <<classinfo_cache, data_directory>>
    /\ ConcurrentFrame

\* api/mod.rs:252-257: the request of the next batch is answered
TaskRequestAnswered ==
    /\ \E t \in ResolverTasks :
          /\ TaskAt(t, "request")
          /\ resolved.tasks[t].todo # << >>
          /\ resolved' = [resolved EXCEPT
                !.tasks[t].records =
                    GetAssetClassInfoResponse(remote, Head(resolved.tasks[t].todo)),
                !.tasks[t].todo = Tail(resolved.tasks[t].todo),
                !.tasks[t].pc = "save"]
    /\ UNCHANGED <<classinfo_cache, data_directory>>
    /\ ConcurrentFrame

\* api/mod.rs:252-256, 299, 374: the request fails and the call returns its error
TaskRequestFails ==
    /\ \E t \in ResolverTasks :
          /\ TaskAt(t, "request")
          /\ resolved.tasks[t].todo # << >>
          /\ resolved' = [resolved EXCEPT
                !.tasks[t].result = "Err",
                !.tasks[t].map = << >>,
                !.tasks[t].pc = "returned"]
    /\ UNCHANGED <<classinfo_cache, data_directory>>
    /\ ConcurrentFrame

\* api/mod.rs:260-264: the records of the batch are saved
TaskSaves ==
    /\ \E t \in ResolverTasks :
          /\ TaskAt(t, "save")
          /\ \E records \in {resolved.tasks[t].records} :
             \E race \in {None} \cup {Some(c) : c \in Contended(DOMAIN records)} :
                data_directory' = save_classinfos(records, data_directory, {}, race)
          /\ resolved' = [resolved EXCEPT !.tasks[t].pc = "lock", !.tasks[t].next = "cache"]
    /\ UNCHANGED classinfo_cache
    /\ ConcurrentFrame

\* api/mod.rs:266-283: the parseable records are inserted into the memory
\* cache, the Mutex being held for the insert alone, and into the result
TaskInsertsBatch ==
    /\ \E t \in ResolverTasks :
          /\ TaskAt(t, "cache")
          /\ \E classinfos \in {ParseableRecords(resolved.tasks[t].records)} :
                /\ classinfo_cache' = insert_map(classinfo_cache, classinfos)
                /\ resolved' = [resolved EXCEPT
                      !.lock = None,
                      !.tasks[t].map = classinfos @@ resolved.tasks[t].map,
                      !.tasks[t].pc = "request"]
    /\ UNCHANGED data_directory
    /\ ConcurrentFrame

\* api/mod.rs:378: every batch was answered
TaskReturns ==
    /\ \E t \in ResolverTasks :
          /\ TaskAt(t, "request")
          /\ resolved.tasks[t].todo = << >>
          /\ resolved' = [resolved EXCEPT !.tasks[t].pc = "returned"]
    /\ UNCHANGED <<classinfo_cache, data_directory>>
    /\ ConcurrentFrame

ConcurrentNext ==
    \/ TaskCalls
    \/ TaskLocks
    \/ TaskLookup
    \/ TaskLoads
    \/ TaskInsertsLoaded
    \/ TaskGroups
    \/ TaskRequestAnswered
    \/ TaskRequestFails
    \/ TaskSaves
    \/ TaskInsertsBatch
    \/ TaskReturns

SpecConcurrent == ConcurrentInit /\ [][ConcurrentNext]_vars

\* the map the call of a task returns when it runs alone in the process,
\* every request answered
MapAlone(t) ==
    get_asset_classinfos(<< >>, resolved.start_files, remote, resolved.tasks[t].classes,
                         NoFaults(resolved.tasks[t].order)).map

\* both tasks have called, over key sets that overlap
OverlappingCalls ==
    /\ \A t \in ResolverTasks : ~TaskAt(t, "idle")
    /\ \E c \in ClassInfoClasses : \A t \in ResolverTasks : c \in resolved.tasks[t].classes

ReturnedOk(t) == TaskAt(t, "returned") /\ resolved.tasks[t].result = "Ok"

(***************************************************************************)
(* C32 (as stated): each of two concurrent calls returns the map it would  *)
(* return when run alone, and the memory cache ends with an entry for      *)
(* every class either call resolved.  A call that asks for a class with    *)
(* instance id 0 loads the file the other call saved for the class without *)
(* instance id (helpers.rs:38-41: one file name for both) and returns that *)
(* record instead of its own.                                              *)
(***************************************************************************)
C32_Original ==
    \A t \in ResolverTasks :
        (ReturnedOk(t) /\ OverlappingCalls) =>
            /\ resolved.tasks[t].map = MapAlone(t)
            /\ DOMAIN resolved.tasks[t].map \subseteq DOMAIN classinfo_cache

\* the positions at which a task awaits a disk load, a remote request or a
\* disk save
AwaitsIO(t) == resolved.tasks[t].pc \in {"load", "request", "save"}

HoldsLock(t) == resolved.lock = Some(t)

(***************************************************************************)
(* C33: a task holds the Mutex of the memory cache only during its lookup  *)
(* pass or an insert, never while it awaits a disk load, a disk save or a  *)
(* remote request; so a task that waits for the Mutex waits for a task     *)
(* that is not waiting on I/O.                                             *)
(***************************************************************************)
C33_NoLockAcrossAwait ==
    \A t \in ResolverTasks :
        /\ HoldsLock(t) => resolved.tasks[t].pc \in {"lookup", "insert", "cache"}
        /\ AwaitsIO(t) => ~HoldsLock(t)
        /\ TaskAt(t, "lock") =>
              \A u \in ResolverTasks : HoldsLock(u) => u # t /\ ~AwaitsIO(u)

\* the poll task awaits the save of a fetched batch while the inventory
\* task holds the Mutex for its lookup pass
C33_Witness ==
    /\ TaskAt("poll", "save")
    /\ TaskAt("inventory", "lookup")
    /\ HoldsLock("inventory")

(***************************************************************************)
(* The clones specification: TradeOfferManager derives Clone               *)
(* (manager/mod.rs:31-43), its clones share the polling slot               *)
(* (Arc<Mutex<Option<Polling>>>), and Drop (manager/mod.rs:460-469) runs   *)
(* for every clone.  manager.clones counts the clones alive.               *)
(***************************************************************************)
MaxClones == 2

ClonesInit ==
    /\ PollerAtRest /\ ResolverAtRest /\ SaveAtRest /\ OffersAtRest /\ UpstreamAtRest
    /\ polling = None
    /\ channels = << >>
    /\ supervisors = << >>
    /\ manager = [alive |-> TRUE, calls |-> 0, last |-> "none", clones |-> 1]

\* manager/mod.rs:31 (derive(Clone)): a clone of a live manager
CloneManager ==
    /\ manager.alive
    /\ manager.clones < MaxClones
    /\ manager' = [manager EXCEPT !.clones = @ + 1]
    /\ UNCHANGED <<polling, channels, supervisors, pollVars, resolveVars, saveVars, offerVars, upstreamVars>>

\* manager/mod.rs:460-469: one clone is dropped; the task the shared slot
\* holds is aborted
DropClone ==
    /\ manager.alive
    /\ manager' = [manager EXCEPT !.clones = @ - 1, !.alive = manager.clones > 1]
    /\ supervisors' = AbortStored(supervisors)
    /\ UNCHANGED <<polling, channels, pollVars, resolveVars, saveVars, offerVars, upstreamVars>>

ClonesNext ==
    \/ StartPolling
    \/ \E poll_type \in PollActions : ManagerDoPoll(poll_type)
    \/ CloneManager
    \/ DropClone
    \/ \E task \in DOMAIN supervisors : SupervisorReceive(task)
    \/ \E task \in DOMAIN supervisors : SupervisorTick(task)
    \/ \E task \in DOMAIN supervisors : SupervisorPublish(task)
    \/ \E task \in DOMAIN supervisors : SupervisorStops(task)
    \/ \E task \in DOMAIN supervisors : DropReceiver(task)

SpecClones == ClonesInit /\ [][ClonesNext]_vars

\* the task whose handle the polling slot holds
StoredTask == unwrap_or(polling, [handle |-> 0]).handle

(***************************************************************************)
(* C34 (as stated): while a clone of the manager is alive, the task the    *)
(* shared polling slot holds has not been aborted, and a do_poll on a      *)
(* remaining clone that returns Ok has reached a task that runs.  Drop     *)
(* runs for every clone and aborts the task the slot holds                 *)
(* (manager/mod.rs:460-469), whatever the number of clones left.           *)
(***************************************************************************)
C34_Original ==
    (manager.alive /\ polling # None) =>
        /\ ~supervisors[StoredTask].abort
        /\ (manager.last = "Ok" /\ supervisors[StoredTask].listening) =>
                Running(StoredTask)

(***************************************************************************)
(* The abort specification: the supervisor runs cycles of one Poller and   *)
(* publishes each result; it can be aborted at any of its suspension       *)
(* points and started again (manager/mod.rs:409-433), the new task loading *)
(* the poll data from the account's document.  cycle.delivered is the      *)
(* result stream: the (offer, state) pairs published so far.               *)
(***************************************************************************)
\* the poll data a new task starts with: the document, or new poll data
load_poll_data(file) ==
    IF file = None
    THEN NewPollData
    ELSE LET doc == unwrap_or(file, PollDocument(NewPollData))
         IN  [offers_since |-> doc.offers_since, last_poll |-> doc.last_poll,
              last_poll_full_update |-> doc.last_poll_full_update,
              state_map |-> doc.state_map, changed |-> FALSE]

AbortInit ==
    /\ ResolverAtRest /\ SaveAtRest /\ ManagerAtRest /\ OffersAtRest /\ UpstreamAtRest
    /\ now = StartTime
    /\ poller = [cancel_duration |-> None, poll_full_update_duration |-> FullUpdateSeconds]
    /\ poll_file = None
    /\ poll_data = load_poll_data(poll_file)
    /\ cycle = [phase |-> "idle", delivered |-> {}]

AbortFrame == UNCHANGED <<now, poller, resolveVars, saveVars, managerVars, offerVars, upstreamVars>>

\* the task runs a Default cycle to its end
SupervisorPolls ==
    /\ cycle.phase = "idle"
    /\ \E offers \in Fetches(OfferIds, now) :
          /\ WellFormedFetch(offers, now)
          /\ \E unresolvable \in SUBSET DiffPoll(poll_data.state_map, offers) :
             \E out \in {do_poll(poll_data, poll_file, poller, now, DefaultPoll,
                                 [NoAnswers EXCEPT !.fetch_ok = TRUE, !.offers = offers,
                                                   !.unresolvable = unresolvable])} :
                /\ poll_data' = out.poll_data
                /\ poll_file' = out.poll_file
                /\ cycle' = out.cycle @@ [delivered |-> cycle.delivered]
    /\ AbortFrame

\* the task sends the result of the cycle to the result stream
ResultPublished ==
    /\ cycle.phase = "returned"
    /\ cycle' = [phase |-> "idle",
                 delivered |-> cycle.delivered
                     \cup {<<id, cycle.poll[id].trade_offer_state>> : id \in DOMAIN cycle.poll}]
    /\ UNCHANGED <<poll_data, poll_file>>
    /\ AbortFrame

\* the task is aborted while it waits to send the result, and polling is
\* started again: the result is dropped with the task
SupervisorAborted ==
    /\ cycle.phase = "returned"
    /\ poll_data' = load_poll_data(poll_file)
    /\ cycle' = [phase |-> "idle", delivered |-> cycle.delivered]
    /\ UNCHANGED poll_file
    /\ AbortFrame

AbortNext ==
    \/ SupervisorPolls
    \/ ResultPublished
    \/ SupervisorAborted

SpecAbort == AbortInit /\ [][AbortNext]_vars

\* the state map of the persisted document
PersistedMap == IF poll_file = None THEN << >> ELSE unwrap_or(poll_file, << >>).state_map

(***************************************************************************)
(* C35 (as stated): between cycles, every offer state recorded in the      *)
(* persisted PollState was delivered to the result stream, also when the   *)
(* task was aborted between persisting and publishing.  The document is    *)
(* written inside do_poll (poller.rs:196-205) before the result is         *)
(* returned and published; the task started after the abort loads the      *)
(* new state and finds nothing to emit.                                    *)
(***************************************************************************)
C35_Original ==
    cycle.phase = "idle" =>
        \A id \in DOMAIN PersistedMap : <<id, PersistedMap[id]>> \in cycle.delivered

(***************************************************************************)
(* The re-emission specification: cycle after cycle of one Poller on a     *)
(* state map at the size limit, while Steam holds the stored offer with    *)
(* the lowest id as Accepted and one offer more as Active and keeps them   *)
(* so.  cycle.emitted is the (offer, state) pairs of the earlier cycles.   *)
(***************************************************************************)
\* the offers Steam holds that differ from the loaded state map
SteadyOffers ==
    [id \in {LowestStoredId, NewestOfferId} |->
        [trade_offer_state |-> IF id = LowestStoredId THEN "Accepted" ELSE "Active",
         is_our_offer |-> FALSE, time_created |-> StartTime, time_updated |-> StartTime,
         glitched |-> FALSE]]

ReemitInit ==
    /\ ResolverAtRest /\ SaveAtRest /\ ManagerAtRest /\ OffersAtRest /\ UpstreamAtRest
    /\ now = StartTime
    /\ poller = [cancel_duration |-> None, poll_full_update_duration |-> FullUpdateSeconds]
    /\ poll_data = [offers_since |-> Some(OldTime), last_poll |-> Some(OldTime),
                    last_poll_full_update |-> Some(OldTime),
                    state_map |-> [id \in StoredIds(STATE_MAP_SIZE_LIMIT) |-> "Active"],
                    changed |-> FALSE]
    /\ poll_file = Some(PollDocument(poll_data))
    /\ cycle = [phase |-> "idle", emitted |-> {}]

ReemitFrame == UNCHANGED <<now, poller, resolveVars, saveVars, managerVars, offerVars, upstreamVars>>

\* a cycle whose fetch returns some of the offers Steam holds
DoPollSteady ==
    /\ cycle.phase = "idle"
    /\ \E poll_type \in TrimPollTypes, ids \in SUBSET DOMAIN SteadyOffers :
       \E offers \in {Restrict(SteadyOffers, ids)} :
       \E unresolvable \in SUBSET DiffPoll(poll_data.state_map, offers) :
       \E out \in {do_poll(poll_data, poll_file, poller, now, poll_type,
                           [NoAnswers EXCEPT !.fetch_ok = TRUE, !.offers = offers,
                                             !.unresolvable = unresolvable])} :
          /\ poll_data' = out.poll_data
          /\ poll_file' = out.poll_file
          /\ cycle' = out.cycle @@ [emitted |-> cycle.emitted]
    /\ ReemitFrame

\* the result of the cycle is published
PublishEmitted ==
    /\ cycle.phase = "returned"
    /\ cycle' = [phase |-> "idle",
                 emitted |-> cycle.emitted
                     \cup {<<id, cycle.poll[id].trade_offer_state>> : id \in DOMAIN cycle.poll}]
    /\ UNCHANGED <<poll_data, poll_file>>
    /\ ReemitFrame

ReemitNext ==
    \/ DoPollSteady
    \/ PublishEmitted

SpecReemit == ReemitInit /\ [][ReemitNext]_vars

(***************************************************************************)
(* C36 (as stated): an offer emitted with state s is not emitted again     *)
(* while the upstream keeps returning it in state s, also across cycles    *)
(* that trim stateMap.  The trim step removes the entry of an emitted      *)
(* offer with a low id (poller.rs:151-167); the next cycle that fetches    *)
(* the offer takes it for a new one (poller.rs:128-130) and emits it       *)
(* again, with no previous state.                                          *)
(***************************************************************************)
C36_Original ==
    Returned =>
        \A id \in Emitted : <<id, cycle.poll[id].trade_offer_state>> \notin cycle.emitted

(***************************************************************************)
(* C37 (as stated): the since timestamp a cycle passes to the fetch is     *)
(* never below the all-time sentinel and never negative, so its cast to    *)
(* the unsigned time_historical_cutoff (api/mod.rs:404-406) never wraps.   *)
(* A full update that fetched no offer stores the sentinel itself as the   *)
(* high-water mark (poller.rs:108-109, 143-145); the next cycle subtracts  *)
(* the buffer from it (poller.rs:37-41).                                   *)
(***************************************************************************)
\* `cutoff.timestamp() as u64` of a negative timestamp is 2^64 + timestamp
CutoffWraps(timestamp) == timestamp < 0

C37_Original ==
    Returned =>
        /\ cycle.params.offers_since >= OFFERS_SINCE_ALL_TIMESTAMP
        /\ ~CutoffWraps(cycle.params.offers_since)

(***************************************************************************)
(* C38: when the offer fetch of a cycle fails, the cycle returns that      *)
(* error and has changed nothing: the poll timestamps, offers_since, the   *)
(* state map and the dirty flag are as before the cycle, no cancel request *)
(* was sent and nothing was written to disk (poller.rs:37-69: the `?` on   *)
(* the fetch precedes every assignment).                                   *)
(***************************************************************************)
FetchFailsNow == cycle.phase = "idle" /\ cycle'.phase = "returned" /\ ~cycle'.in.fetch_ok

C38_FetchFailureChangesNothing ==
    [][FetchFailsNow =>
        /\ cycle'.result = "FetchError"
        /\ poll_data' = poll_data
        /\ poll_file' = poll_file
        /\ cycle'.cancel_sent = {}
        /\ cycle'.poll = << >>
        /\ UNCHANGED <<resolveVars, saveVars>>]_vars

\* a cycle of a poller with stored offers and a document on disk failed at the
\* fetch, of a poll type that would have set the poll timestamps
C38_Witness ==
    /\ Returned
    /\ cycle.result = "FetchError"
    /\ ~is_active_only(cycle.poll_type)
    /\ poll_data.state_map # << >>
    /\ poll_file # None

(***************************************************************************)
(* The persistence specification: the small poller specification with      *)
(* cycles whose save_poll_data fails.  The result of the save is dropped   *)
(* (`let _ =`, poller.rs:199-203) after `changed` was cleared (197).       *)
(***************************************************************************)
PersistInit ==
    /\ ResolverAtRest /\ SaveAtRest /\ ManagerAtRest /\ OffersAtRest /\ UpstreamAtRest
    /\ now = StartTime
    /\ poller = [cancel_duration |-> None, poll_full_update_duration |-> FullUpdateSeconds]
    /\ poll_file = None
    /\ poll_data = load_poll_data(poll_file)
    /\ cycle = IdleCycle

\* a call of Poller::do_poll that runs to its end; its save, if it makes one,
\* succeeds or fails
DoPollPersists ==
    /\ cycle.phase = "idle"
    /\ \E poll_type \in PollTypes, offers \in Fetches(OfferIds, now), save_ok \in BOOLEAN :
        /\ WellFormedFetch(offers, now)
        /\ \A id \in DOMAIN offers : offers[id].time_created = now
        /\ \E out \in {do_poll(poll_data, poll_file, poller, now, poll_type,
                               [NoAnswers EXCEPT !.fetch_ok = TRUE, !.offers = offers,
                                                 !.descriptions = is_active_only(poll_type),
                                                 !.save_ok = save_ok])} :
            /\ out.cycle.save \/ save_ok
            /\ poll_data' = out.poll_data
            /\ poll_file' = out.poll_file
            /\ cycle' = out.cycle
    /\ UNCHANGED <<now, poller, resolveVars, saveVars, managerVars, offerVars, upstreamVars>>

PersistNext ==
    \/ DoPollPersists
    \/ PublishResult

SpecPersist == PersistInit /\ [][PersistNext]_vars

(***************************************************************************)
(* C39 (as stated): whenever a cycle has ended and the dirty flag is       *)
(* false, the PollState document on disk equals the PollState in memory;   *)
(* a cycle whose save failed leaves the flag set.  An account without a    *)
(* document counts as equal to the new PollState that is loaded from it.   *)
(***************************************************************************)
DiskEqualsMemory == PollDocument(load_poll_data(poll_file)) = PollDocument(poll_data)

C39_Original ==
    /\ Returned /\ ~poll_data.changed => DiskEqualsMemory
    /\ Returned /\ cycle.save /\ ~cycle.in.save_ok => poll_data.changed

(***************************************************************************)
(* C40 (as stated): the mapping from class keys to final file names is     *)
(* injective, a key without an instance id and the key with instance id 0  *)
(* of the same class included, so a save for one key never replaces the    *)
(* record that a load of another key reads.  get_classinfo_file_path       *)
(* writes 0 for a missing instance id (helpers.rs:37-41).                  *)
(***************************************************************************)
FileNamesInjective ==
    \A one, other \in ClassInfoClasses : one # other => FinalName(one) # FinalName(other)

\* a call leaves what the keys it did not request load from disk
SaveLeavesOtherKeys ==
    [][resolved'.phase = "returned" =>
        \A other \in ClassInfoClasses \ resolved'.requested :
            load_classinfo(other, data_directory') = load_classinfo(other, data_directory)]_vars

C40_Original ==
    /\ []FileNamesInjective
    /\ SaveLeavesOtherKeys

====
